---- MODULE Spec2Model ----
(***************************************************************************)
(* Revenium middleware for the Google genai SDK (Go): the asynchronous     *)
(* metering pipeline.                                                      *)
(*                                                                         *)
(* SpecDelivery  one background metering task: payload build, the retry    *)
(*               loop of the chat / image / video delivery engine, the     *)
(*               logging of the outcome.                                   *)
(* SpecCall      one wrapped SDK call seen from its caller: the wrapper's  *)
(*               code around the SDK call, the stream iterator, the        *)
(*               metering tasks it dispatches and what it returns.         *)
(* SpecHost      host goroutines sharing one client: the interface         *)
(*               getters, the wrapped calls, Flush, Close, Reset, the      *)
(*               locks and the wait group, the background tasks.           *)
(* SpecInit      host goroutines around the process-wide client:           *)
(*               Initialize, IsInitialized, GetClient, Reset and the       *)
(*               construction of a client from a configuration.            *)
(* SpecExtract   the functions of the usage extractor and of the payload   *)
(*               builder, each applied to one input drawn from a set.      *)
(***************************************************************************)
EXTENDS Integers, Sequences, FiniteSets, TLC

VARIABLES
    now,         \* the clock, in milliseconds
    \* ---- one background metering task (SpecDelivery) ----
    kind,        \* call kind of the task: which delivery engine runs
    ctx,         \* the context of the originating call: "live", "cancelled"
    metadata,    \* caller metadata read from the call context
    config,      \* the client's configuration
    dpc,         \* position of the task: "start", "loop", "done", "idle"
    payload,     \* the payload built by the task
    attempt,     \* loop variable of the retry loop
    backoff,     \* next sleep of the retry loop, in milliseconds
    lastErr,     \* lastErr of the retry loop
    sent,        \* one record per loop iteration: what was sent, what came back
    sleeps,      \* the time.Sleep calls of the task so far, in order
    result,      \* the error returned by the retry function (NoErr: success)
    errorLog     \* what the task logged at error level

VARIABLES
    \* ---- one wrapped call (SpecCall) ----
    cpc,         \* position of the caller: "idle", "iterating", "returned",
                 \* "panicked", "ended", "polling", "waited"
    op,          \* the entry point called
    sdkOut,      \* what the SDK produced for the call, in order
    ret,         \* what the wrapper returned to the caller
    yielded,     \* the items the stream wrapper yielded to its consumer
    dispatched,  \* arguments of the metering tasks the call started
    requestTime,           \* requestTime of the call
    lastUsage,             \* stream iterator: lastUsage
    completionStartTime,   \* stream iterator: completionStartTime
    firstTokenReceived,    \* stream iterator: firstTokenReceived
    chunkCount,            \* stream iterator: chunkCount
    exit,        \* how the stream ended: "exhausted", "stopped", "error"
    cancelAt,    \* <<n>> once the context of the call was cancelled, n items
                 \* having been yielded; <<>> before
    polls        \* WaitForVideoGeneration: what its polls of the operation
                 \* found, in order

dvars == <<kind, ctx, metadata, config, dpc, payload, attempt, backoff, lastErr, sent,
           sleeps, result, errorLog>>

cvars == <<cpc, op, sdkOut, ret, yielded, dispatched, requestTime, lastUsage,
           completionStartTime, firstTokenReceived, chunkCount, exit, cancelAt, polls>>

VARIABLES
    \* ---- host goroutines on one client (SpecHost) ----
    hpc,          \* per goroutine: "idle" or the operation it is inside
    mu,           \* holder of the client's r.mu write lock, 0: free
    globalMu,     \* holder of the globalMu write lock, 0: free
    wg,           \* counter of the client's wait group
    task,         \* the background metering tasks started so far
    seen,         \* per goroutine inside Flush/Close: how many tasks had
                  \* been dispatched when it made the call
    hret,         \* per goroutine: what its last operation returned
    initialized,  \* the global initialized flag
    globalClient, \* the global client, Nil or the instance and its identity
    clients       \* how many clients Initialize has constructed so far

hvars == <<hpc, mu, globalMu, wg, task, seen, hret, initialized,
           globalClient, clients>>

\* the host variables a metering task does not touch
hostOnly == <<hpc, mu, globalMu, task, seen, hret, initialized, globalClient,
              clients>>

VARIABLES
    \* ---- a function of the extractor or of the payload builder, applied
    \* ---- to one input (SpecExtract) ----
    input,        \* the function and its arguments
    output        \* Nil, or what the function returned

xvars == <<input, output>>

vars == <<now, dvars, cvars, hvars, xvars>>

-----------------------------------------------------------------------------
(* Program constants *)

maxRetries == 3

\* longest SDK stream the model follows
MaxChunks == 3

\* host goroutines, and metering tasks they start in all
NumThreads == 2
MaxTasks == 2

\* clients constructed in a run
MaxClients == 2

initialBackoff == 100
httpTimeout == 10000

Kinds == {"CHAT", "IMAGE", "VIDEO"}

defaultCostType == "AI"

OperationType(k) == k

-----------------------------------------------------------------------------
(* Errors.  An error is a record [type, msg, code, cause]; NoErr is nil.   *)

NoErr == [type |-> "nil"]

\* a nil pointer
Nil == [nil |-> TRUE]

\* the zero time.Time
ZeroTime == -1

NewError(t, msg, code, cause) ==
    [type |-> t, msg |-> msg, code |-> code, cause |-> cause]

NewConfigError(msg, cause) == NewError("CONFIG", msg, 0, cause)
NewMeteringError(msg, cause) == NewError("METERING", msg, 0, cause)
NewNetworkError(msg, cause) == NewError("NETWORK", msg, 0, cause)
NewValidationError(msg, code, cause) == NewError("VALIDATION", msg, code, cause)

\* fmt.Errorf with %w: a plain error wrapping cause; code is the %d argument
Errorf(msg, code, cause) == NewError("fmt", msg, code, cause)

IsValidationError(err) == err.type = "VALIDATION"

\* the errors.Unwrap chain below e (e itself excluded)
RECURSIVE Causes(_)
Causes(e) ==
    IF e = NoErr THEN {}
    ELSE IF e.cause = NoErr THEN {}
    ELSE {e.cause} \cup Causes(e.cause)

-----------------------------------------------------------------------------
(* Configuration of a client, as far as delivery reads it.  A client only  *)
(* exists with a non-empty metering key; NewReveniumGoogle leaves the base *)
(* URL as the caller gave it, Initialize defaults it.                      *)

defaultReveniumBaseURL == "https://api.revenium.ai"

Configs ==
    [ReveniumAPIKey : {"hak_k"}, ReveniumBaseURL : {"", defaultReveniumBaseURL}]

Endpoint(k) ==
    CASE k = "CHAT"  -> "/meter/v2/ai/completions"
      [] k = "IMAGE" -> "/meter/v2/ai/images"
      [] k = "VIDEO" -> "/meter/v2/ai/video"

-----------------------------------------------------------------------------
(* The network and the metering backend, as seen by one HTTP attempt.      *)

Statuses == {199, 200, 204, 299, 300, 399, 400, 404, 499, 500, 503}

\* what client.Do returns: a response with a status, or a transport error
\* ("timeout": the client timeout expired before the backend had taken the
\* request; "lost": the backend accepted the request and the client timeout
\* expired before its response arrived; "scheme": the URL has no scheme)
Responses == [net : {"response"}, status : Statuses]
TransportErrors == [net : {"refused", "timeout", "lost"}, status : {0}]
NoScheme == [net |-> "scheme", status |-> 0]
NetOutcomes == Responses \cup TransportErrors

\* time one HTTP attempt takes, in milliseconds
HttpDuration(o) == IF o.net \in {"timeout", "lost"} THEN httpTimeout ELSE 1

\* the transport error the client sees: a lost response is a timeout to it
TransportMessage(o) == IF o.net = "lost" THEN "timeout" ELSE o.net

\* the backend accepted the payload of an attempt that ended with o
Accepted(o) ==
    \/ o.net = "response" /\ o.status >= 200 /\ o.status < 300
    \/ o.net = "lost"

-----------------------------------------------------------------------------
(* Payload *)

generateRequestID(t) == <<t, t % 1000>>

NoMetadata == [k \in {} |-> ""]

\* the part of a payload the delivery engine is about: its identity and the
\* fixed fields of the call kind
BuildPayload(k, md, t) ==
    [operationType |-> OperationType(k),
     costType      |-> defaultCostType,
     transactionId |-> IF "transactionId" \in DOMAIN md
                       THEN md["transactionId"]
                       ELSE generateRequestID(t)]

NoPayload == [operationType |-> "none"]

\* addGoogleMetadataToPayload: metadataFields
metadataFields ==
    {"organizationId", "productId", "taskType", "taskId", "agent",
     "subscriptionId", "traceId", "transactionId", "subscriber",
     "responseQualityScore", "modelSource", "temperature", "mediationLatency",
     "traceType", "traceName", "environment", "region", "retryNumber",
     "credentialAlias", "parentTransactionId"}

\* the keys the chat payload builder looks up in the metadata, one by one
chatMetadataFields ==
    {"organizationId", "productId", "taskType", "agent", "subscriptionId",
     "traceId", "subscriber", "responseQualityScore", "taskId", "modelSource",
     "mediationLatency", "temperature", "transactionId", "traceType",
     "traceName", "environment", "region", "retryNumber", "credentialAlias",
     "parentTransactionId"}

\* the fields a call kind copies
CopiedFields(k) == IF k = "CHAT" THEN chatMetadataFields ELSE metadataFields

\* a copy of every key the metadata holds
CopyFields_All(p, md, fields) ==
    [f \in DOMAIN p \cup DOMAIN md |-> IF f \in DOMAIN md THEN md[f] ELSE p[f]]

\* if value, ok := metadata[field]; ok { payload[field] = value }
CopyFields(p, md, fields) ==
    [f \in DOMAIN p \cup (DOMAIN md \cap fields) |->
        IF f \in DOMAIN md \cap fields THEN md[f] ELSE p[f]]

\* the fields every payload of a call kind has before the metadata is
\* looked at
FixedFields(k, t) ==
    [operationType    |-> OperationType(k),
     costType         |-> defaultCostType,
     transactionId    |-> generateRequestID(t),
     model            |-> "gemini",
     provider         |-> "Google",
     middlewareSource |-> "go"]

\* the payload of a call kind with the caller's metadata
MeteringPayload(k, md, t) == CopyFields(FixedFields(k, t), md, CopiedFields(k))


-----------------------------------------------------------------------------
(* One HTTP attempt of each engine *)

\* a request made with http.NewRequestWithContext(ctx, ...)
RequestContext_OfCall == "call"

\* the context of a request made with http.NewRequest: context.Background()
RequestContext == "background"

\* a request whose payload is rebuilt at every attempt
chatRequest_Rebuilt(cfg, p) ==
    [url |-> <<cfg.ReveniumBaseURL, Endpoint("CHAT")>>,
     apiKey |-> cfg.ReveniumAPIKey, ctx |-> RequestContext,
     body |-> [p EXCEPT !.transactionId = generateRequestID(now)]]

\* the request put on the wire: URL, credential header, marshalled body
chatRequest(cfg, p) ==
    [url |-> <<cfg.ReveniumBaseURL, Endpoint("CHAT")>>,
     apiKey |-> cfg.ReveniumAPIKey, ctx |-> RequestContext, body |-> p]

imageRequest(cfg, p) ==
    [url |-> <<IF cfg.ReveniumBaseURL = "" THEN defaultReveniumBaseURL
               ELSE cfg.ReveniumBaseURL, Endpoint("IMAGE")>>,
     apiKey |-> cfg.ReveniumAPIKey, ctx |-> RequestContext, body |-> p]

videoRequest(cfg, p) ==
    [url |-> <<IF cfg.ReveniumBaseURL = "" THEN defaultReveniumBaseURL
               ELSE cfg.ReveniumBaseURL, Endpoint("VIDEO")>>,
     apiKey |-> cfg.ReveniumAPIKey, ctx |-> RequestContext, body |-> p]

HttpRequest(k, cfg, p) ==
    CASE k = "CHAT"  -> chatRequest(cfg, p)
      [] k = "IMAGE" -> imageRequest(cfg, p)
      [] k = "VIDEO" -> videoRequest(cfg, p)

\* client.Do on a request whose context is done
Canceled == [net |-> "canceled", status |-> 0]

\* what client.Do can return for a request: on a URL without a scheme it
\* fails before anything is sent, and with a context that is done it fails
\* with the context's error
ClientDo(req) ==
    IF req.url[1] = "" THEN {NoScheme}
    ELSE IF req.ctx = "call" /\ ctx = "cancelled" THEN {Canceled}
    ELSE NetOutcomes

\* a classification that takes 4xx for a transient failure
chatStatusError_NoValidation(status) ==
    IF status < 200 \/ status >= 300
    THEN NewMeteringError("metering API error", Errorf("status", status, NoErr))
    ELSE NoErr

\* classification of a response status
chatStatusError(status) ==
    IF status < 200 \/ status >= 300
    THEN IF status >= 400 /\ status < 500
         THEN NewValidationError("metering API returned", status, NoErr)
         ELSE NewMeteringError("metering API error", Errorf("status", status, NoErr))
    ELSE NoErr

imageStatusError(status) ==
    IF status < 200 \/ status >= 300
    THEN IF status >= 400 /\ status < 500
         THEN NewValidationError("image metering API returned", status, NoErr)
         ELSE NewMeteringError("image metering API error", Errorf("status", status, NoErr))
    ELSE NoErr

videoStatusError(status) ==
    IF status < 200 \/ status >= 300
    THEN IF status >= 400 /\ status < 500
         THEN NewValidationError("video metering API returned", status, NoErr)
         ELSE NewMeteringError("video metering API error", Errorf("status", status, NoErr))
    ELSE NoErr

\* r: what client.Do returned for the request
sendMeteringRequest(cfg, r) ==
    IF cfg.ReveniumAPIKey = ""
    THEN NewConfigError("metering not configured", NoErr)
    ELSE IF r.net # "response"
         THEN NewNetworkError("metering request failed", Errorf(TransportMessage(r), 0, NoErr))
         ELSE chatStatusError(r.status)

doImageMeteringRequest(cfg, r) ==
    IF r.net # "response"
    THEN NewNetworkError("image metering request failed", Errorf(TransportMessage(r), 0, NoErr))
    ELSE imageStatusError(r.status)

doVideoMeteringRequest(cfg, r) ==
    IF r.net # "response"
    THEN NewNetworkError("video metering request failed", Errorf(TransportMessage(r), 0, NoErr))
    ELSE videoStatusError(r.status)

DoRequest(k, cfg, r) ==
    CASE k = "CHAT"  -> sendMeteringRequest(cfg, r)
      [] k = "IMAGE" -> doImageMeteringRequest(cfg, r)
      [] k = "VIDEO" -> doVideoMeteringRequest(cfg, r)

-----------------------------------------------------------------------------
(* The retry loop *)

\* the sleep at the top of an iteration: none before the first attempt
SleepBefore(a, b) == IF a > 0 THEN b ELSE 0

\* a backoff that never grows
NextBackoff_Constant(a, b) == b

\* backoff after the sleep of an iteration
NextBackoff(a, b) == IF a > 0 THEN b * 2 ELSE b

\* a loop that does not return on success before its last iteration
IterationExit_IgnoresSuccess(a, err) ==
    IF err # NoErr /\ IsValidationError(err) THEN "err"
    ELSE IF a + 1 < maxRetries THEN "next"
    ELSE IF err = NoErr THEN "nil"
    ELSE "exhausted"

\* how an iteration that got err ends: "nil" (return nil), "err" (return
\* err), "next" (next iteration) or "exhausted" (the loop ends)
IterationExit(a, err) ==
    IF err = NoErr THEN "nil"
    ELSE IF IsValidationError(err) THEN "err"
    ELSE IF a + 1 < maxRetries THEN "next"
    ELSE "exhausted"

\* the error returned when the loop ends
TerminalError(k, last) ==
    CASE k = "CHAT" ->
           NewMeteringError("metering failed after retries",
                            Errorf("retries, last error", maxRetries, last))
      [] k = "IMAGE" ->
           NewMeteringError("image metering failed after retries", last)
      [] k = "VIDEO" ->
           NewMeteringError("video metering failed after retries", last)

\* what the task logs at error level for the error the delivery returned
LogDelivery(err) == IF err # NoErr THEN <<err>> ELSE <<>>

\* a loop that keeps the first error instead of the last
RecordLastErr_First(prev, err) == IF prev = NoErr THEN err ELSE prev

\* lastErr after an iteration that failed with err
RecordLastErr(prev, err) == err

\* a dispatch that forgets wg.Add(1)
WgAdd_Forgotten(counter) == counter

\* wg.Add(1), before the go statement
WgAdd(counter) == counter + 1

\* a task that ends without telling the WaitGroup
WgDone_Forgotten(counter) == counter

\* wg.Done(), deferred in the task's goroutine
WgDone(counter) == counter - 1

\* one iteration of the loop, r being what client.Do returns in it; the
\* iteration that leaves the loop also returns to the task, which logs, and
\* the task's goroutine ends
RetryIteration(r) ==
    /\ dpc = "loop"
    /\ attempt < maxRetries
    /\ LET slept == SleepBefore(attempt, backoff)
           req   == HttpRequest(kind, config, payload)
           err   == DoRequest(kind, config, r)
           how   == IterationExit(attempt, err)
           last  == IF err = NoErr THEN lastErr ELSE RecordLastErr(lastErr, err)
           out   == CASE how = "nil" -> NoErr
                      [] how = "err" -> err
                      [] OTHER -> TerminalError(kind, last)
       IN /\ r \in ClientDo(req)
          /\ sleeps' = IF slept > 0 THEN Append(sleeps, slept) ELSE sleeps
          /\ backoff' = NextBackoff(attempt, backoff)
          /\ sent' = Append(sent, [n |-> attempt + 1, slept |-> slept,
                                   request |-> req, got |-> r, err |-> err,
                                   ctxDone |-> ctx = "cancelled"])
          /\ now' = now + slept + HttpDuration(r)
          /\ lastErr' = last
          /\ IF how = "next"
             THEN /\ attempt' = attempt + 1
                  /\ UNCHANGED <<dpc, result, errorLog, wg>>
             ELSE /\ dpc' = "done"
                  /\ result' = out
                  /\ errorLog' = errorLog \o LogDelivery(out)
                  /\ wg' = WgDone(wg)
                  /\ UNCHANGED attempt
    /\ UNCHANGED <<kind, ctx, metadata, config, payload, cvars, hostOnly, xvars>>

sendMeteringWithRetry(r) == kind = "CHAT" /\ RetryIteration(r)

sendImageMeteringRequest(r) == kind = "IMAGE" /\ RetryIteration(r)

sendVideoMeteringRequest(r) == kind = "VIDEO" /\ RetryIteration(r)

\* the task builds its payload, once, before the delivery
TaskBuild ==
    /\ dpc = "start"
    /\ payload' = BuildPayload(kind, metadata, now)
    /\ dpc' = "loop"
    /\ UNCHANGED <<kind, ctx, metadata, config, now, attempt, backoff, lastErr,
                   sent, sleeps, result, errorLog, cvars, hvars, xvars>>

\* a task function without the deferred recover: the panic leaves the
\* goroutine
Recovered_NotDeferred(p) == "crashed"

\* the deferred recover() of the task function takes the panic p: the
\* function returns normally
Recovered(p) == "done"

\* what the recover handler logs at error level
LogPanic(p) == <<NewError("panic", p, 0, NoErr)>>

Panics == {"build", "delivery"}

\* a panic is raised inside the task, in the payload build or in the
\* delivery; the deferred functions run: recover() in the task function,
\* wg.Done() in the goroutine
TaskPanic(p) ==
    /\ dpc = IF p = "build" THEN "start" ELSE "loop"
    /\ dpc' = Recovered(p)
    /\ errorLog' = errorLog \o LogPanic(p)
    /\ wg' = WgDone(wg)
    /\ UNCHANGED <<kind, ctx, metadata, config, now, payload, attempt, backoff,
                   lastErr, sent, sleeps, result, cvars, hostOnly, xvars>>

\* the host cancels the context of the call while its task is in flight
CancelContext ==
    /\ dpc \in {"start", "loop"}
    /\ ctx = "live"
    /\ ctx' = "cancelled"
    /\ UNCHANGED <<kind, metadata, config, now, dpc, payload, attempt, backoff,
                   lastErr, sent, sleeps, result, errorLog, cvars, hvars, xvars>>

Metadatas == {NoMetadata, [transactionId |-> "tx-caller"]}

StartTimes == {0, 1700}

\* no delivery task in the model
DeliveryOff ==
    /\ kind = "none"
    /\ ctx = "live"
    /\ metadata = NoMetadata
    /\ config = [ReveniumAPIKey |-> "hak_k", ReveniumBaseURL |-> defaultReveniumBaseURL]
    /\ dpc = "off"
    /\ payload = NoPayload
    /\ attempt = 0
    /\ backoff = initialBackoff
    /\ lastErr = NoErr
    /\ sent = <<>>
    /\ sleeps = <<>>
    /\ result = NoErr
    /\ errorLog = <<>>

\* no wrapped call in the model
CallOff ==
    /\ cpc = "off"
    /\ op = "none"
    /\ sdkOut = <<>>
    /\ ret = Nil
    /\ yielded = <<>>
    /\ dispatched = <<>>
    /\ requestTime = ZeroTime
    /\ lastUsage = Nil
    /\ completionStartTime = ZeroTime
    /\ firstTokenReceived = FALSE
    /\ chunkCount = 0
    /\ exit = "none"
    /\ cancelAt = <<>>
    /\ polls = <<>>

\* no host goroutine in the model
HostIdle ==
    /\ hpc = <<>>
    /\ mu = 0
    /\ globalMu = 0
    /\ task = <<>>
    /\ seen = <<>>
    /\ hret = <<>>
    /\ initialized = FALSE
    /\ globalClient = Nil
    /\ clients = 0

HostOff == HostIdle /\ wg = 0

\* no function application in the model
ExtractOff ==
    /\ input = Nil
    /\ output = Nil

\* the task is dispatched: wg.Add(1), then the go statement
InitDelivery ==
    /\ ExtractOff
    /\ CallOff
    /\ HostIdle
    /\ wg = WgAdd(0)
    /\ kind \in Kinds
    /\ ctx = "live"
    /\ metadata \in Metadatas
    /\ config \in Configs
    /\ now \in StartTimes
    /\ dpc = "start"
    /\ payload = NoPayload
    /\ attempt = 0
    /\ backoff = initialBackoff
    /\ lastErr = NoErr
    /\ sent = <<>>
    /\ sleeps = <<>>
    /\ result = NoErr
    /\ errorLog = <<>>

NextDelivery ==
    \/ TaskBuild
    \/ \E p \in Panics : TaskPanic(p)
    \/ CancelContext
    \/ \E r \in NetOutcomes \cup {NoScheme, Canceled} : sendMeteringWithRetry(r)
    \/ \E r \in NetOutcomes \cup {NoScheme, Canceled} : sendImageMeteringRequest(r)
    \/ \E r \in NetOutcomes \cup {NoScheme, Canceled} : sendVideoMeteringRequest(r)

SpecDelivery == InitDelivery /\ [][NextDelivery]_vars

-----------------------------------------------------------------------------
(* The SDK, as the wrappers see it *)

\* usage blocks of a response
Usage(prompt, candidates, total, cached, thoughts) ==
    [PromptTokenCount |-> prompt, CandidatesTokenCount |-> candidates,
     TotalTokenCount |-> total, CachedContentTokenCount |-> cached,
     ThoughtsTokenCount |-> thoughts]

Usages == {Usage(10, 5, 15, 0, 0), Usage(10, 7, 0, 2, 1)}

\* content responses and stream chunks: the usage block is a pointer
\* a candidate of a response, as far as the middleware reads it
Candidate(finishReason) == [FinishReason |-> finishReason]

ContentResponses ==
    [UsageMetadata : Usages \cup {Nil},
     Candidates : {<<Candidate([word |-> w, casing |-> "UPPER"])>> : w \in {"STOP", "SAFETY"}}]

SdkErrors == {NewError("sdk", "googleapi: quota exceeded", 429, NoErr)}

\* what a synchronous SDK call returns: (resp, nil) or (nil, err)
Returned(resp, err) == [resp |-> resp, err |-> err]

ContentResults ==
    {Returned(r, NoErr) : r \in ContentResponses}
        \cup {Returned(Nil, e) : e \in SdkErrors}

ImageCounts == 0..2

ImageResults ==
    {Returned([GeneratedImages |-> n], NoErr) : n \in ImageCounts}
        \cup {Returned(Nil, e) : e \in SdkErrors}

VideoResults ==
    {Returned([Name |-> "operations/1", Done |-> FALSE], NoErr)}
        \cup {Returned(Nil, e) : e \in SdkErrors}

\* time the SDK takes to answer, or to produce the next stream item
Delays == {0, 7}

\* the panic of a nil pointer dereference
Panic == [panic |-> "nil pointer dereference"]

-----------------------------------------------------------------------------
(* The wrappers *)

\* arguments of a chat metering task (sendMeteringDataWithTiming)
ChatTask(resp, streamed, reqT, startT, respT, err) ==
    [fn |-> "sendMeteringDataWithTiming", resp |-> resp, isStreamed |-> streamed,
     requestTime |-> reqT, completionStartTime |-> startT,
     responseTime |-> respT, err |-> err]

\* arguments of the image and video metering tasks
MediaTask(fn, resp, reqT, duration, requested) ==
    [fn |-> fn, resp |-> resp, requestTime |-> reqT, duration |-> duration,
     requestedCount |-> requested, errorReason |-> ""]

MediaErrorTask(fn, reqT, duration, err, requested) ==
    [fn |-> fn, resp |-> Nil, requestTime |-> reqT, duration |-> duration,
     requestedCount |-> requested, errorReason |-> err.msg]

\* requested count of an image or video call: config.NumberOf..., default 1
RequestedCount(n) == IF n > 0 THEN n ELSE 1

\* state of a call that is not a stream
NoStream ==
    /\ UNCHANGED <<yielded, lastUsage, completionStartTime, firstTokenReceived,
                   chunkCount, exit, cancelAt, polls>>

\* the debug line after a successful GenerateContent reads
\* resp.UsageMetadata.TotalTokenCount
DebugTokens(resp) == IF resp.UsageMetadata = Nil THEN Panic ELSE Nil

GenerateContent(r, d) ==
    /\ cpc = "idle"
    /\ op' = "GenerateContent"
    /\ requestTime' = now
    /\ now' = now + d
    /\ sdkOut' = <<r>>
    /\ IF r.err # NoErr
       THEN /\ dispatched' = <<ChatTask(Nil, FALSE, now, now', now', r.err)>>
            /\ ret' = Returned(Nil, r.err)
            /\ cpc' = "returned"
       ELSE IF DebugTokens(r.resp) = Panic
       THEN /\ dispatched' = <<>>
            /\ ret' = Panic
            /\ cpc' = "panicked"
       ELSE /\ dispatched' = <<ChatTask(r.resp, FALSE, now, now', now', NoErr)>>
            /\ ret' = Returned(r.resp, NoErr)
            /\ cpc' = "returned"
    /\ NoStream
    /\ UNCHANGED <<dvars, hvars, xvars>>

\* GenerateImages and EditImage: n is config.NumberOfImages (0: not set)
ImageCall(name, okFn, r, d, n) ==
    /\ cpc = "idle"
    /\ op' = name
    /\ requestTime' = now
    /\ now' = now + d
    /\ sdkOut' = <<r>>
    /\ IF r.err # NoErr
       THEN /\ dispatched' = <<MediaErrorTask("sendImageMeteringForError", now, d,
                                              r.err, RequestedCount(n))>>
            /\ ret' = Returned(Nil, r.err)
       ELSE /\ dispatched' = <<MediaTask(okFn, r.resp, now, d, RequestedCount(n))>>
            /\ ret' = Returned(r.resp, NoErr)
    /\ cpc' = "returned"
    /\ NoStream
    /\ UNCHANGED <<dvars, hvars, xvars>>

GenerateImages(r, d, n) ==
    ImageCall("GenerateImages", "sendImageMeteringData", r, d, n)

EditImage(r, d, n) ==
    ImageCall("EditImage", "sendEditImageMeteringData", r, d, n)

UpscaleImage(r, d) ==
    ImageCall("UpscaleImage", "sendUpscaleMeteringData", r, d, 1)

\* GenerateVideos: n is config.NumberOfVideos (0: not set)
GenerateVideos(r, d, n) ==
    /\ cpc = "idle"
    /\ op' = "GenerateVideos"
    /\ requestTime' = now
    /\ now' = now + d
    /\ sdkOut' = <<r>>
    /\ IF r.err # NoErr
       THEN /\ dispatched' = <<MediaErrorTask("sendVideoMeteringForError", now, d,
                                              r.err, RequestedCount(n))>>
            /\ ret' = Returned(Nil, r.err)
       ELSE /\ dispatched' = <<MediaTask("sendVideoOperationStartMetering", r.resp,
                                         now, d, RequestedCount(n))>>
            /\ ret' = Returned(r.resp, NoErr)
    /\ cpc' = "returned"
    /\ NoStream
    /\ UNCHANGED <<dvars, hvars, xvars>>

-----------------------------------------------------------------------------
(* The stream wrapper *)

\* GenerateContentStream: returns the iterator; nothing runs before the
\* consumer ranges over it
GenerateContentStream ==
    /\ cpc = "idle"
    /\ op' = "GenerateContentStream"
    /\ requestTime' = now
    /\ cpc' = "iterating"
    /\ ret' = [stream |-> TRUE]
    /\ lastUsage' = Nil
    /\ completionStartTime' = ZeroTime
    /\ firstTokenReceived' = FALSE
    /\ chunkCount' = 0
    /\ UNCHANGED <<now, sdkOut, yielded, dispatched, exit, cancelAt, polls, dvars,
                   hvars, xvars>>

\* a wrapper that keeps the first usage block it sees
CaptureUsage_First(prev, resp) ==
    IF prev # Nil THEN prev ELSE resp.UsageMetadata

\* the usage kept after a chunk
CaptureUsage(prev, resp) ==
    IF resp.UsageMetadata # Nil THEN resp.UsageMetadata ELSE prev

\* the response handed to the metering task of a stream
UsageOnly(usage) == [UsageMetadata |-> usage, Candidates |-> <<>>]

\* a wrapper that hands on only the usage block of a chunk
YieldChunk_UsageOnly(resp) == Returned(UsageOnly(resp.UsageMetadata), NoErr)

\* yield(resp, nil): the chunk of the SDK is handed to the consumer as it is
YieldChunk(resp) == Returned(resp, NoErr)

\* a dispatch per chunk that carries usage
AfterYield_PerChunk(cont, usage, args) ==
    IF usage # Nil THEN <<args>> ELSE <<>>

\* tasks started after a chunk was yielded: cont is what yield returned
AfterYield(cont, usage, args) ==
    IF ~cont /\ usage # Nil THEN <<args>> ELSE <<>>

\* tasks started when the SDK stream is exhausted
AtExhaustion(usage, args) ==
    IF usage # Nil THEN <<args>> ELSE <<>>

\* an iterator that never records the time of the first chunk
FirstTokenTime_Unrecorded(received, start, t) == start

\* completionStartTime after a chunk received at t: the time of the first
\* chunk
FirstTokenTime(received, start, t) == IF ~received THEN t ELSE start

\* the SDK stream produces chunk c after d; the wrapper yields it and the
\* consumer answers cont (FALSE: it stops ranging)
StreamChunk(c, d, cont) ==
    /\ cpc = "iterating"
    /\ Len(sdkOut) < MaxChunks
    /\ now' = now + d
    /\ sdkOut' = Append(sdkOut, Returned(c, NoErr))
    /\ chunkCount' = chunkCount + 1
    /\ completionStartTime' =
          FirstTokenTime(firstTokenReceived, completionStartTime, now')
    /\ firstTokenReceived' = TRUE
    /\ lastUsage' = CaptureUsage(lastUsage, c)
    /\ yielded' = Append(yielded, YieldChunk(c))
    /\ dispatched' = dispatched \o
          AfterYield(cont, lastUsage',
                     ChatTask(UsageOnly(lastUsage'), TRUE, requestTime,
                              completionStartTime', now', NoErr))
    /\ IF cont
       THEN UNCHANGED <<cpc, exit>>
       ELSE cpc' = "ended" /\ exit' = "stopped"
    /\ UNCHANGED <<op, ret, requestTime, cancelAt, polls, dvars, hvars, xvars>>

\* the SDK stream produces an error after d
StreamError(e, d) ==
    /\ cpc = "iterating"
    /\ now' = now + d
    /\ sdkOut' = Append(sdkOut, Returned(Nil, e))
    /\ dispatched' = dispatched \o
          IF lastUsage # Nil
          THEN <<ChatTask(UsageOnly(lastUsage), TRUE, requestTime,
                          IF ~firstTokenReceived THEN now' ELSE completionStartTime,
                          now', e)>>
          ELSE <<ChatTask(Nil, TRUE, requestTime, now', now', e)>>
    /\ completionStartTime' =
          IF lastUsage # Nil /\ ~firstTokenReceived THEN now' ELSE completionStartTime
    /\ yielded' = Append(yielded, Returned(Nil, e))
    /\ cpc' = "ended"
    /\ exit' = "error"
    /\ UNCHANGED <<op, ret, requestTime, lastUsage, firstTokenReceived,
                   chunkCount, cancelAt, polls, dvars, hvars, xvars>>

\* the SDK stream ends after d
StreamExhausted(d) ==
    /\ cpc = "iterating"
    /\ now' = now + d
    /\ dispatched' = dispatched \o
          AtExhaustion(lastUsage,
                       ChatTask(UsageOnly(lastUsage), TRUE, requestTime,
                                completionStartTime, now', NoErr))
    /\ cpc' = "ended"
    /\ exit' = "exhausted"
    /\ UNCHANGED <<op, sdkOut, ret, yielded, requestTime, lastUsage,
                   completionStartTime, firstTokenReceived, chunkCount, cancelAt,
                   polls, dvars, hvars, xvars>>

\* the host cancels the context of the call while the stream is consumed:
\* the iterator function reads ctx nowhere, its state is what it was
CancelStream ==
    /\ cpc = "iterating"
    /\ ctx = "live"
    /\ ctx' = "cancelled"
    /\ cancelAt' = <<Len(yielded)>>
    /\ UNCHANGED <<now, kind, metadata, config, dpc, payload, attempt, backoff,
                   lastErr, sent, sleeps, result, errorLog, hvars, xvars>>
    /\ UNCHANGED <<cpc, op, sdkOut, ret, yielded, dispatched, requestTime,
                   lastUsage, completionStartTime, firstTokenReceived, chunkCount,
                   exit, polls>>

\* time.Ticker and context.WithTimeout of WaitForVideoGeneration: the polls
\* a wait makes before its context is done
MaxPolls == 3

\* the operation as GetVideosOperation returns it: Error is the set of the
\* entries of a map (nil and empty: no entry), Response a pointer
VideoOperation(done, error, response) ==
    [Done |-> done, Error |-> error, Response |-> response]

\* an operation error, and fmt.Sprintf("%v", ...) of it
OperationError == {<<"code", 13>>}
SprintError(e) == [msg |-> "map[code:13]"]

GeneratedVideos(n) == [GeneratedVideos |-> n]

\* what a poll finds
PollResults ==
    {Returned(Nil, e) : e \in SdkErrors}
        \cup {Returned(VideoOperation(FALSE, {}, Nil), NoErr)}
        \cup {Returned(VideoOperation(TRUE, e, r), NoErr) :
                 e \in {{}, OperationError},
                 r \in {Nil, GeneratedVideos(0), GeneratedVideos(2)}}

\* ctx.Err() of a context that is done
DeadlineExceeded == NewError("context", "context deadline exceeded", 0, NoErr)
ContextCanceled == NewError("context", "context canceled", 0, NoErr)

\* fmt.Sprintf("operation timeout: %v", err)
TimeoutReason(err) ==
    [msg |-> IF err = DeadlineExceeded
             THEN "operation timeout: context deadline exceeded"
             ELSE "operation timeout: context canceled"]

\* WaitForVideoGeneration up to its loop
WaitForVideoGeneration ==
    /\ cpc = "idle"
    /\ op' = "WaitForVideoGeneration"
    /\ requestTime' = now
    /\ cpc' = "polling"
    /\ UNCHANGED <<now, sdkOut, ret, yielded, dispatched, lastUsage,
                   completionStartTime, firstTokenReceived, chunkCount, exit,
                   cancelAt, polls, dvars, hvars, xvars>>

\* case <-ticker.C: the poll answers o after d
PollOperation(o, d) ==
    /\ cpc = "polling"
    /\ Len(polls) < MaxPolls
    /\ now' = now + d
    /\ polls' = Append(polls, o)
    /\ LET duration == now' - requestTime
       IN IF o.err # NoErr \/ ~o.resp.Done
          THEN UNCHANGED <<cpc, ret, dispatched>>
          ELSE /\ cpc' = "waited"
               /\ IF Cardinality(o.resp.Error) > 0
                  THEN /\ dispatched' =
                             <<MediaErrorTask("sendVideoMeteringForError",
                                              requestTime, duration,
                                              SprintError(o.resp.Error), 0)>>
                       /\ ret' = Returned(Nil, Errorf("video generation failed",
                                                      0, NoErr))
                  ELSE IF o.resp.Response # Nil
                  THEN /\ dispatched' =
                             <<MediaTask("sendVideoCompletionMetering",
                                         o.resp.Response, requestTime, duration,
                                         0)>>
                       /\ ret' = Returned(o.resp.Response, NoErr)
                  ELSE /\ UNCHANGED dispatched
                       /\ ret' = Returned(Nil,
                                          Errorf("video generation completed but no response",
                                                 0, NoErr))
    /\ UNCHANGED <<op, sdkOut, yielded, requestTime, lastUsage,
                   completionStartTime, firstTokenReceived, chunkCount, exit,
                   cancelAt, dvars, hvars, xvars>>

\* case <-ctx.Done(): the timeout has passed or the caller's context was
\* cancelled, after d
ContextDone(e, d) ==
    /\ cpc = "polling"
    /\ now' = now + d
    /\ dispatched' = <<MediaErrorTask("sendVideoMeteringForError", requestTime,
                                      now' - requestTime, TimeoutReason(e), 0)>>
    /\ ret' = Returned(Nil, e)
    /\ cpc' = "waited"
    /\ UNCHANGED <<op, sdkOut, yielded, requestTime, lastUsage,
                   completionStartTime, firstTokenReceived, chunkCount, exit,
                   cancelAt, polls, dvars, hvars, xvars>>

InitCall ==
    /\ ExtractOff
    /\ DeliveryOff
    /\ HostOff
    /\ now \in StartTimes
    /\ cpc = "idle"
    /\ op = "none"
    /\ sdkOut = <<>>
    /\ ret = Nil
    /\ yielded = <<>>
    /\ dispatched = <<>>
    /\ requestTime = ZeroTime
    /\ lastUsage = Nil
    /\ completionStartTime = ZeroTime
    /\ firstTokenReceived = FALSE
    /\ chunkCount = 0
    /\ exit = "none"
    /\ cancelAt = <<>>
    /\ polls = <<>>

NextCall ==
    \/ \E r \in ContentResults, d \in Delays : GenerateContent(r, d)
    \/ \E r \in ImageResults, d \in Delays, n \in ImageCounts : GenerateImages(r, d, n)
    \/ \E r \in ImageResults, d \in Delays, n \in ImageCounts : EditImage(r, d, n)
    \/ \E r \in ImageResults, d \in Delays : UpscaleImage(r, d)
    \/ \E r \in VideoResults, d \in Delays, n \in ImageCounts : GenerateVideos(r, d, n)
    \/ GenerateContentStream
    \/ \E c \in ContentResponses, d \in Delays, cont \in BOOLEAN : StreamChunk(c, d, cont)
    \/ \E e \in SdkErrors, d \in Delays : StreamError(e, d)
    \/ \E d \in Delays : StreamExhausted(d)
    \/ CancelStream
    \/ WaitForVideoGeneration
    \/ \E o \in PollResults, d \in Delays : PollOperation(o, d)
    \/ \E e \in {DeadlineExceeded, ContextCanceled}, d \in Delays : ContextDone(e, d)

SpecCall == InitCall /\ [][NextCall]_vars

-----------------------------------------------------------------------------
(* Host goroutines on one client *)

Threads == 1..NumThreads

Getters == {"Models", "Images", "Videos"}

\* the tasks that are started and not finished
InFlight == {i \in DOMAIN task : task[i].state = "running"}

\* r.mu.RLock() and globalMu.RLock() go through when no writer holds the lock
RLockFree(lock) == lock = 0

\* r.mu.Lock() and globalMu.Lock()
LockFree(lock) == lock = 0

\* a Wait that returns at once
WgWait_NoWait(counter) == TRUE

\* wg.Wait() returns when the counter is zero
WgWait(counter) == counter = 0

Return(t, v) ==
    /\ hpc' = [hpc EXCEPT ![t] = "idle"]
    /\ hret' = [hret EXCEPT ![t] = v]

\* a goroutine at rest makes a call: what the previous call returned is gone
Enter(t) ==
    /\ hpc[t] = "idle"
    /\ hret' = [hret EXCEPT ![t] = [op |-> "none"]]

\* a goroutine stands at a lock it cannot take, or inside a wait
Park(t, where) == hpc' = [hpc EXCEPT ![t] = where]

\* Models(), Images(), Videos() past r.mu.RLock(): the interface is built,
\* the lock released, and the goroutine goes on into the wrapped call
\* (client.Models().GenerateContent(...)), up to its SDK call
GetterBody(t) == Park(t, "sdk")

\* a goroutine calls Models(), Images() or Videos(): it goes through, or
\* stands at r.mu.RLock() while a writer holds the lock
CallGetter(t, name) ==
    /\ Enter(t)
    /\ Len(task) + Cardinality({u \in Threads : hpc[u] \in Getters \cup {"sdk"}})
           < MaxTasks
    /\ IF RLockFree(mu) THEN GetterBody(t) ELSE Park(t, name)
    /\ UNCHANGED <<mu, globalMu, wg, task, seen, initialized, globalClient>>
    /\ UNCHANGED <<now, dvars, cvars, clients, xvars>>

\* a goroutine standing at r.mu.RLock() in a getter gets the lock
Models(t) ==
    /\ hpc[t] \in Getters
    /\ RLockFree(mu)
    /\ GetterBody(t)
    /\ UNCHANGED <<mu, globalMu, wg, task, seen, hret, initialized, globalClient>>
    /\ UNCHANGED <<now, dvars, cvars, clients, xvars>>

\* the SDK call of a wrapped call returns: the wrapper starts its metering
\* task and returns to its caller
WrappedCall(t) ==
    /\ hpc[t] = "sdk"
    /\ wg' = WgAdd(wg)
    /\ task' = Append(task, [state |-> "running", attempt |-> 0])
    /\ hpc' = [hpc EXCEPT ![t] = "idle"]
    /\ UNCHANGED <<mu, globalMu, seen, hret, initialized, globalClient>>
    /\ UNCHANGED <<now, dvars, cvars, clients, xvars>>

\* answers of the backend the tasks of this specification meet
TaskOutcomes ==
    {[net |-> "response", status |-> 200], [net |-> "response", status |-> 400],
     [net |-> "response", status |-> 503]}

\* one iteration of the retry loop of task i (the three engines end an
\* iteration alike, the chat engine stands for them); leaving the loop ends
\* the task's goroutine, whose deferred wg.Done() runs (the attempts a
\* finished task made are not kept)
TaskAttempt(i, r) ==
    /\ i \in InFlight
    /\ LET err == sendMeteringRequest(config, r)
           how == IterationExit(task[i].attempt, err)
       IN IF how = "next"
          THEN /\ task' = [task EXCEPT ![i].attempt = @ + 1]
               /\ UNCHANGED wg
          ELSE /\ task' = [task EXCEPT ![i].state = "finished", ![i].attempt = 0]
               /\ wg' = WgDone(wg)
    /\ UNCHANGED <<hpc, mu, globalMu, seen, hret, initialized, globalClient>>
    /\ UNCHANGED <<now, dvars, cvars, clients, xvars>>

\* what Flush or Close, returning now, leaves unfinished of the tasks that
\* were dispatched before it was called
Unfinished(t) == (1..seen[t]) \cap InFlight

\* a goroutine calls Flush() and stands in r.wg.Wait()
CallFlush(t) ==
    /\ Enter(t)
    /\ Park(t, "Flush")
    /\ seen' = [seen EXCEPT ![t] = Len(task)]
    /\ UNCHANGED <<mu, globalMu, wg, task, initialized, globalClient>>
    /\ UNCHANGED <<now, dvars, cvars, clients, xvars>>

\* Flush(): r.wg.Wait() returns
Flush(t) ==
    /\ hpc[t] = "Flush"
    /\ WgWait(wg)
    /\ Return(t, [op |-> "Flush", unfinished |-> Unfinished(t),
                  covered |-> seen[t] > 0])
    /\ seen' = [seen EXCEPT ![t] = 0]
    /\ UNCHANGED <<mu, globalMu, wg, task, initialized, globalClient>>
    /\ UNCHANGED <<now, dvars, cvars, clients, xvars>>

\* Close() past r.mu.Lock(): Flush() is called with the lock held
CloseBody(t) ==
    /\ mu' = t
    /\ Park(t, "CloseWait")

\* a goroutine calls Close(): it takes r.mu, or stands at r.mu.Lock()
CallClose(t) ==
    /\ Enter(t)
    /\ seen' = [seen EXCEPT ![t] = Len(task)]
    /\ IF LockFree(mu) THEN CloseBody(t) ELSE Park(t, "Close") /\ UNCHANGED mu
    /\ UNCHANGED <<globalMu, wg, task, initialized, globalClient>>
    /\ UNCHANGED <<now, dvars, cvars, clients, xvars>>

\* a goroutine standing at r.mu.Lock() in Close() gets the lock
CloseLock(t) ==
    /\ hpc[t] = "Close"
    /\ LockFree(mu)
    /\ CloseBody(t)
    /\ UNCHANGED <<globalMu, wg, task, seen, hret, initialized, globalClient>>
    /\ UNCHANGED <<now, dvars, cvars, clients, xvars>>

\* Close(): Flush() returns, the deferred r.mu.Unlock() runs
Close(t) ==
    /\ hpc[t] = "CloseWait"
    /\ WgWait(wg)
    /\ mu' = 0
    /\ Return(t, [op |-> "Close", unfinished |-> Unfinished(t),
                  covered |-> seen[t] > 0])
    /\ seen' = [seen EXCEPT ![t] = 0]
    /\ UNCHANGED <<globalMu, wg, task, initialized, globalClient>>
    /\ UNCHANGED <<now, dvars, cvars, clients, xvars>>

\* GetClient() past globalMu.RLock(): the check of initialized, the unlock
GetClientBody(t) ==
    Return(t, IF ~initialized
              THEN [op |-> "GetClient", client |-> Nil,
                    err |-> NewConfigError("middleware not initialized", NoErr)]
              ELSE [op |-> "GetClient", client |-> globalClient, err |-> NoErr])

\* a goroutine calls GetClient(): it returns, or stands at globalMu.RLock()
CallGetClient(t) ==
    /\ hpc[t] = "idle"
    /\ IF RLockFree(globalMu)
       THEN GetClientBody(t)
       ELSE Park(t, "GetClient") /\ hret' = [hret EXCEPT ![t] = [op |-> "none"]]
    /\ UNCHANGED <<mu, globalMu, wg, task, seen, initialized, globalClient>>
    /\ UNCHANGED <<now, dvars, cvars, clients, xvars>>

\* a goroutine standing at globalMu.RLock() in GetClient() gets the lock
GetClient(t) ==
    /\ hpc[t] = "GetClient"
    /\ RLockFree(globalMu)
    /\ GetClientBody(t)
    /\ UNCHANGED <<mu, globalMu, wg, task, seen, initialized, globalClient>>
    /\ UNCHANGED <<now, dvars, cvars, clients, xvars>>

\* Reset() holding globalMu, inside globalClient.Close() past r.mu.Lock()
ResetCloseBody(t) ==
    /\ mu' = t
    /\ Park(t, "ResetWait")

\* Reset() past globalMu.Lock(): without a global client it only clears the
\* flag; with one it calls globalClient.Close() with globalMu held
ResetBody(t) ==
    IF globalClient = Nil
    THEN /\ initialized' = FALSE
         /\ hpc' = [hpc EXCEPT ![t] = "idle"]
         /\ UNCHANGED <<mu, globalMu>>
    ELSE /\ globalMu' = t
         /\ IF LockFree(mu) THEN ResetCloseBody(t)
                            ELSE Park(t, "ResetClose") /\ UNCHANGED mu
         /\ UNCHANGED initialized

\* a goroutine calls Reset(): it takes globalMu, or stands at globalMu.Lock()
CallReset(t) ==
    /\ Enter(t)
    /\ IF LockFree(globalMu)
       THEN ResetBody(t)
       ELSE Park(t, "Reset") /\ UNCHANGED <<mu, globalMu, initialized>>
    /\ UNCHANGED <<wg, task, seen, globalClient>>
    /\ UNCHANGED <<now, dvars, cvars, clients, xvars>>

\* a goroutine standing at globalMu.Lock() in Reset() gets the lock
ResetLock(t) ==
    /\ hpc[t] = "Reset"
    /\ LockFree(globalMu)
    /\ ResetBody(t)
    /\ UNCHANGED <<wg, task, seen, hret, globalClient>>
    /\ UNCHANGED <<now, dvars, cvars, clients, xvars>>

\* a goroutine standing at r.mu.Lock() in Reset()'s Close() gets the lock
ResetCloseLock(t) ==
    /\ hpc[t] = "ResetClose"
    /\ LockFree(mu)
    /\ ResetCloseBody(t)
    /\ UNCHANGED <<globalMu, wg, task, seen, hret, initialized, globalClient>>
    /\ UNCHANGED <<now, dvars, cvars, clients, xvars>>

\* Reset(): Close() returns, the global client is dropped, the flag cleared,
\* globalMu released
Reset(t) ==
    /\ hpc[t] = "ResetWait"
    /\ WgWait(wg)
    /\ mu' = 0
    /\ globalClient' = Nil
    /\ initialized' = FALSE
    /\ globalMu' = 0
    /\ hpc' = [hpc EXCEPT ![t] = "idle"]
    /\ UNCHANGED <<wg, task, seen, hret>>
    /\ UNCHANGED <<now, dvars, cvars, clients, xvars>>

\* the state after a successful Initialize
InitHost ==
    /\ ExtractOff
    /\ CallOff
    /\ kind = "none"
    /\ ctx = "live"
    /\ metadata = NoMetadata
    /\ config = [ReveniumAPIKey |-> "hak_k", ReveniumBaseURL |-> defaultReveniumBaseURL]
    /\ dpc = "off"
    /\ payload = NoPayload
    /\ attempt = 0
    /\ backoff = initialBackoff
    /\ lastErr = NoErr
    /\ sent = <<>>
    /\ sleeps = <<>>
    /\ result = NoErr
    /\ errorLog = <<>>
    /\ now = 0
    /\ hpc = [t \in Threads |-> "idle"]
    /\ mu = 0
    /\ globalMu = 0
    /\ wg = 0
    /\ task = <<>>
    /\ seen = [t \in Threads |-> 0]
    /\ hret = [t \in Threads |-> [op |-> "none"]]
    /\ initialized = TRUE
    /\ globalClient = [id |-> 1, instance |-> [config |-> config, provider |-> "GOOGLE_AI"]]
    /\ clients = 1

NextHost ==
    \/ \E t \in Threads, g \in Getters : CallGetter(t, g)
    \/ \E t \in Threads : Models(t)
    \/ \E t \in Threads : WrappedCall(t)
    \/ \E i \in DOMAIN task, r \in TaskOutcomes : TaskAttempt(i, r)
    \/ \E t \in Threads : CallFlush(t)
    \/ \E t \in Threads : Flush(t)
    \/ \E t \in Threads : CallClose(t)
    \/ \E t \in Threads : CloseLock(t)
    \/ \E t \in Threads : Close(t)
    \/ \E t \in Threads : CallGetClient(t)
    \/ \E t \in Threads : GetClient(t)
    \/ \E t \in Threads : CallReset(t)
    \/ \E t \in Threads : ResetLock(t)
    \/ \E t \in Threads : ResetCloseLock(t)
    \/ \E t \in Threads : Reset(t)

SpecHost == InitHost /\ [][NextHost]_vars

\* the scheduling of the goroutines: a task's goroutine keeps running (each
\* attempt is bounded by the HTTP timeout and the sleep before it), a wait
\* whose counter is zero returns, and a goroutine standing at a lock gets it
\* when the lock is free again and again (sync.Mutex and sync.RWMutex hand
\* the lock to a starving waiter).  Nothing makes a host start a call, and
\* nothing makes an SDK call return.
FairHost ==
    /\ \A i \in 1..MaxTasks : WF_vars(\E r \in TaskOutcomes : TaskAttempt(i, r))
    /\ \A t \in Threads :
          /\ WF_vars(Flush(t))
          /\ WF_vars(Close(t))
          /\ WF_vars(Reset(t))
          /\ SF_vars(CloseLock(t))
          /\ SF_vars(ResetLock(t))
          /\ SF_vars(ResetCloseLock(t))
          /\ SF_vars(Models(t))
          /\ SF_vars(GetClient(t))

SpecHostLive == SpecHost /\ FairHost

-----------------------------------------------------------------------------
(* Configuration and construction of a client *)

\* a metering credential is a string, kept as its characters; a base URL is
\* kept as its parts between slashes, a last part "" being a trailing slash
Chars(a, b, c, d, e) == <<a, b, c, d, e>>

HakKey == Chars("h", "a", "k", "_", "1")

SkKey == Chars("s", "k", "_", "9", "9")

MalformedKeys == {SkKey, <<"h", "a", "k">>}

\* isValidAPIKeyFormat
isValidAPIKeyFormat(key) ==
    IF Len(key) < 4 THEN FALSE ELSE SubSeq(key, 1, 4) = <<"h", "a", "k", "_">>

\* Config.Validate
Validate(c) ==
    IF c.ReveniumAPIKey = <<>>
    THEN NewConfigError("REVENIUM_METERING_API_KEY is required", NoErr)
    ELSE IF ~isValidAPIKeyFormat(c.ReveniumAPIKey)
    THEN NewConfigError("invalid Revenium API key format", NoErr)
    ELSE NoErr

\* the zero value of Config
ZeroConfig ==
    [GoogleAPIKey |-> "", ProjectID |-> "", Location |-> "",
     ReveniumAPIKey |-> <<>>, ReveniumBaseURL |-> <<>>,
     VertexDisabled |-> FALSE, Debug |-> FALSE, CapturePrompts |-> FALSE]

\* functional options: the field an option sets and the value it sets
WithGoogleAPIKey(key) == <<"GoogleAPIKey", key>>
WithProjectID(id) == <<"ProjectID", id>>
WithLocation(l) == <<"Location", l>>
WithReveniumAPIKey(key) == <<"ReveniumAPIKey", key>>
WithReveniumBaseURL(url) == <<"ReveniumBaseURL", url>>
WithDebug(d) == <<"Debug", d>>
WithCapturePrompts(c) == <<"CapturePrompts", c>>

\* for _, opt := range opts { opt(cfg) }
RECURSIVE ApplyOptions(_, _)
ApplyOptions(cfg, opts) ==
    IF opts = <<>> THEN cfg
    ELSE ApplyOptions([cfg EXCEPT ![opts[1][1]] = opts[1][2]], Tail(opts))

\* NormalizeReveniumBaseURL: a trailing slash, then one of the suffixes
\* /meter/v2, /meter, /v2 is cut off
NormalizeReveniumBaseURL(baseURL) ==
    IF baseURL = <<>> THEN <<>>
    ELSE LET u == IF baseURL[Len(baseURL)] = ""
                  THEN SubSeq(baseURL, 1, Len(baseURL) - 1) ELSE baseURL
             n == Len(u)
         IN IF n >= 3 /\ u[n - 1] = "meter" /\ u[n] = "v2" THEN SubSeq(u, 1, n - 2)
            ELSE IF n >= 2 /\ u[n] = "meter" THEN SubSeq(u, 1, n - 1)
            ELSE IF n >= 2 /\ u[n] = "v2" THEN SubSeq(u, 1, n - 1)
            ELSE u

\* os.Getenv of a flag reads as set
EnvTrue(v) == v = "true" \/ v = "1"

\* Config.loadFromEnv: every field but VertexDisabled is assigned from the
\* environment, set or not
loadFromEnv(c, env) ==
    [GoogleAPIKey    |-> env.GOOGLE_API_KEY,
     ProjectID       |-> env.GOOGLE_CLOUD_PROJECT,
     Location        |-> env.GOOGLE_CLOUD_LOCATION,
     ReveniumAPIKey  |-> env.REVENIUM_METERING_API_KEY,
     ReveniumBaseURL |-> NormalizeReveniumBaseURL(
                             IF env.REVENIUM_METERING_BASE_URL = <<>>
                             THEN <<defaultReveniumBaseURL>>
                             ELSE env.REVENIUM_METERING_BASE_URL),
     VertexDisabled  |-> IF EnvTrue(env.REVENIUM_VERTEX_DISABLE)
                         THEN TRUE ELSE c.VertexDisabled,
     Debug           |-> EnvTrue(env.REVENIUM_DEBUG),
     CapturePrompts  |-> EnvTrue(env.REVENIUM_CAPTURE_PROMPTS)]

\* a selection that looks at the project id first
DetectProvider_ProjectFirst(cfg) ==
    IF cfg = Nil THEN "GOOGLE_AI"
    ELSE IF cfg.ProjectID # "" THEN "VERTEX_AI"
    ELSE "GOOGLE_AI"

\* DetectProvider
DetectProvider(cfg) ==
    IF cfg = Nil THEN "GOOGLE_AI"
    ELSE IF cfg.VertexDisabled THEN "GOOGLE_AI"
    ELSE IF cfg.ProjectID # "" THEN "VERTEX_AI"
    ELSE "GOOGLE_AI"

\* createGenaiClient: sdk is what genai.NewClient returns, NoErr or an error
createGenaiClient(cfg, provider, sdk) ==
    IF provider = "VERTEX_AI"
    THEN IF cfg.ProjectID = ""
         THEN NewConfigError("GOOGLE_CLOUD_PROJECT is required for Vertex AI", NoErr)
         ELSE IF cfg.Location = ""
         THEN NewConfigError("GOOGLE_CLOUD_LOCATION is required for Vertex AI", NoErr)
         ELSE sdk
    ELSE IF cfg.GoogleAPIKey = ""
         THEN NewConfigError("GOOGLE_API_KEY is required for Google AI", NoErr)
         ELSE sdk

NewProviderError(msg, cause) == NewError("PROVIDER", msg, 0, cause)

\* construction of a client from cfg, common to Initialize and
\* NewReveniumGoogle: the error, or NoErr and the client
Construct(cfg, sdk) ==
    IF cfg.ReveniumAPIKey = <<>>
    THEN [err |-> NewConfigError("REVENIUM_METERING_API_KEY is required", NoErr),
          client |-> Nil]
    ELSE LET provider == DetectProvider(cfg)
             err == createGenaiClient(cfg, provider, sdk)
         IN IF err # NoErr
            THEN [err |-> NewProviderError("failed to create Google Genai client", err),
                  client |-> Nil]
            ELSE [err |-> NoErr,
                  client |-> [config |-> cfg, provider |-> provider]]

-----------------------------------------------------------------------------
(* The process-wide client: Initialize, IsInitialized, GetClient, Reset,
   and the construction of a client of one's own *)

\* the environment of the process, the .env files loaded into it
Env(google, project, location, key, url, disable) ==
    [GOOGLE_API_KEY |-> google, GOOGLE_CLOUD_PROJECT |-> project,
     GOOGLE_CLOUD_LOCATION |-> location, REVENIUM_METERING_API_KEY |-> key,
     REVENIUM_METERING_BASE_URL |-> url, REVENIUM_VERTEX_DISABLE |-> disable,
     REVENIUM_DEBUG |-> "", REVENIUM_CAPTURE_PROMPTS |-> ""]

Envs ==
    {Env("", "", "", <<>>, <<>>, ""),
     Env("g-key", "", "", HakKey, <<>>, ""),
     Env("", "proj", "", HakKey, <<>>, ""),
     Env("", "proj", "", HakKey, <<>>, "true"),
     Env("", "proj", "us", HakKey, <<defaultReveniumBaseURL, "meter", "v2">>, ""),
     Env("g-key", "", "", SkKey, <<>>, "")}

\* the options a host passes to Initialize
OptionLists ==
    {<<>>, <<WithReveniumAPIKey(HakKey), WithGoogleAPIKey("g-opt"), WithDebug(TRUE)>>}

\* what genai.NewClient returns
SdkErr == [type |-> "sdk", msg |-> "genai: no client", code |-> 0, cause |-> NoErr]

SdkResults == {NoErr, SdkErr}

\* the configurations a host hands to NewReveniumGoogle and DetectProvider
HostConfig(key, google, project, disabled) ==
    [ZeroConfig EXCEPT !.ReveniumAPIKey = key, !.GoogleAPIKey = google,
                       !.ProjectID = project, !.Location = "us",
                       !.VertexDisabled = disabled]

\* for NewReveniumGoogle: every kind of credential, and both providers
HostConfigs ==
    {HostConfig(k, "g-key", "", FALSE) : k \in {<<>>, HakKey} \cup MalformedKeys}
    \cup {HostConfig(HakKey, "", "", FALSE), HostConfig(HakKey, "", "proj", FALSE)}

\* for DetectProvider: no configuration, and every setting of what it reads
ProviderConfigs ==
    {Nil} \cup {HostConfig(HakKey, "g-key", p, d) : p \in {"", "proj"}, d \in BOOLEAN}

\* Initialize without its look at the flag
AlreadyInitialized_Unchecked == FALSE

\* Initialize: if initialized { return nil }
AlreadyInitialized == initialized

\* a construction that publishes whatever it got
Published_Always(err) == TRUE

\* Initialize: the client is published when no step of the construction failed
Published(err) == err = NoErr

\* Initialize past globalMu.Lock(): on an initialized middleware it returns
\* nil; otherwise it goes on to construct the client, holding the lock
InitializeLocked(t) ==
    IF AlreadyInitialized
    THEN Return(t, [op |-> "Initialize", err |-> NoErr]) /\ UNCHANGED globalMu
    ELSE /\ globalMu' = t
         /\ Park(t, "InitializeBody")
         /\ hret' = [hret EXCEPT ![t] = [op |-> "none"]]

\* a goroutine calls Initialize(): it takes globalMu, or stands at
\* globalMu.Lock()
CallInitialize(t) ==
    /\ hpc[t] = "idle"
    /\ IF LockFree(globalMu)
       THEN InitializeLocked(t)
       ELSE /\ Park(t, "Initialize")
            /\ hret' = [hret EXCEPT ![t] = [op |-> "none"]]
            /\ UNCHANGED globalMu
    /\ UNCHANGED <<mu, wg, task, seen, initialized, globalClient>>
    /\ UNCHANGED <<now, dvars, cvars, clients, xvars>>

\* a goroutine standing at globalMu.Lock() in Initialize() gets the lock
InitializeLock(t) ==
    /\ hpc[t] = "Initialize"
    /\ LockFree(globalMu)
    /\ InitializeLocked(t)
    /\ UNCHANGED <<mu, wg, task, seen, initialized, globalClient>>
    /\ UNCHANGED <<now, dvars, cvars, clients, xvars>>

\* Initialize(opts...) holding globalMu: the options are applied, the
\* environment loaded over them, the client constructed and published, the
\* lock released
InitializeBody(t, opts, env, sdk) ==
    /\ hpc[t] = "InitializeBody"
    /\ LET cfg == loadFromEnv(ApplyOptions(ZeroConfig, opts), env)
           r == Construct(cfg, sdk)
       IN /\ IF Published(r.err)
             THEN /\ clients < MaxClients
                  /\ clients' = clients + 1
                  /\ globalClient' = [id |-> clients + 1, instance |-> r.client]
                  /\ initialized' = TRUE
             ELSE UNCHANGED <<clients, globalClient, initialized>>
          /\ Return(t, [op |-> "Initialize", err |-> r.err])
    /\ globalMu' = 0
    /\ UNCHANGED <<mu, wg, task, seen>>
    /\ UNCHANGED <<now, dvars, cvars, xvars>>

\* IsInitialized() past globalMu.RLock()
IsInitializedBody(t) == Return(t, [op |-> "IsInitialized", value |-> initialized])

\* a goroutine calls IsInitialized(): it returns, or stands at
\* globalMu.RLock()
CallIsInitialized(t) ==
    /\ hpc[t] = "idle"
    /\ IF RLockFree(globalMu)
       THEN IsInitializedBody(t)
       ELSE Park(t, "IsInitialized") /\ hret' = [hret EXCEPT ![t] = [op |-> "none"]]
    /\ UNCHANGED <<mu, globalMu, wg, task, seen, initialized, globalClient>>
    /\ UNCHANGED <<now, dvars, cvars, clients, xvars>>

\* a goroutine standing at globalMu.RLock() in IsInitialized() gets the lock
IsInitialized(t) ==
    /\ hpc[t] = "IsInitialized"
    /\ RLockFree(globalMu)
    /\ IsInitializedBody(t)
    /\ UNCHANGED <<mu, globalMu, wg, task, seen, initialized, globalClient>>
    /\ UNCHANGED <<now, dvars, cvars, clients, xvars>>

\* NewReveniumGoogle(cfg): a client of the host's own, no global state
NewReveniumGoogle(t, cfg, sdk) ==
    /\ hpc[t] = "idle"
    /\ LET r == IF cfg = Nil
                THEN [err |-> NewConfigError("config cannot be nil", NoErr),
                      client |-> Nil]
                ELSE Construct(cfg, sdk)
       IN Return(t, [op |-> "NewReveniumGoogle", client |-> r.client, err |-> r.err])
    /\ UNCHANGED <<mu, globalMu, wg, task, seen, initialized, globalClient>>
    /\ UNCHANGED <<now, dvars, cvars, clients, xvars>>

\* a host asks DetectProvider(cfg) itself
CallDetectProvider(t, cfg) ==
    /\ hpc[t] = "idle"
    /\ Return(t, [op |-> "DetectProvider", cfg |-> cfg, provider |-> DetectProvider(cfg)])
    /\ UNCHANGED <<mu, globalMu, wg, task, seen, initialized, globalClient>>
    /\ UNCHANGED <<now, dvars, cvars, clients, xvars>>

\* the process before any Initialize
InitInit ==
    /\ ExtractOff
    /\ DeliveryOff
    /\ CallOff
    /\ now = 0
    /\ hpc = [t \in Threads |-> "idle"]
    /\ mu = 0
    /\ globalMu = 0
    /\ wg = 0
    /\ task = <<>>
    /\ seen = [t \in Threads |-> 0]
    /\ hret = [t \in Threads |-> [op |-> "none"]]
    /\ initialized = FALSE
    /\ globalClient = Nil
    /\ clients = 0

\* NewReveniumGoogle and DetectProvider read and write nothing shared, so
\* one goroutine making these calls stands for all of them
Builder == 1

\* no request is in flight and no instance lock is held by anyone else, so
\* Reset's Close() goes through r.mu.Lock() and r.wg.Wait() at once
NextInit ==
    \/ \E t \in Threads : CallInitialize(t)
    \/ \E t \in Threads : InitializeLock(t)
    \/ \E t \in Threads, opts \in OptionLists, env \in Envs, sdk \in SdkResults :
          InitializeBody(t, opts, env, sdk)
    \/ \E t \in Threads : CallIsInitialized(t)
    \/ \E t \in Threads : IsInitialized(t)
    \/ \E t \in Threads : CallGetClient(t)
    \/ \E t \in Threads : GetClient(t)
    \/ \E t \in Threads : CallReset(t)
    \/ \E t \in Threads : ResetLock(t)
    \/ \E t \in Threads : Reset(t)
    \/ \E cfg \in HostConfigs, sdk \in SdkResults : NewReveniumGoogle(Builder, cfg, sdk)
    \/ NewReveniumGoogle(Builder, Nil, NoErr)
    \/ \E cfg \in ProviderConfigs : CallDetectProvider(Builder, cfg)

SpecInit == InitInit /\ [][NextInit]_vars

-----------------------------------------------------------------------------
(* The usage extractor and the payload builder, one function at a time *)

\* a string whose letter case matters: the string in upper case, and how the
\* letters of the string are cased; a literal of the source is in upper case
Casings == {"UPPER", "lower", "Mixed"}

Text(word, casing) == [word |-> word, casing |-> casing]

Lit(word) == Text(word, "UPPER")

\* an upper-casing that leaves the string as it is
ToUpper_Same(s) == s

\* strings.ToUpper
ToUpper(s) == [s EXCEPT !.casing = "UPPER"]

StopReasonEnd == "END"
StopReasonEndSequence == "END_SEQUENCE"
StopReasonTimeout == "TIMEOUT"
StopReasonTokenLimit == "TOKEN_LIMIT"
StopReasonCostLimit == "COST_LIMIT"
StopReasonCompletionLimit == "COMPLETION_LIMIT"
StopReasonError == "ERROR"
StopReasonCancelled == "CANCELLED"

\* ReveniumStopReason
StopReasons ==
    {StopReasonEnd, StopReasonEndSequence, StopReasonTimeout, StopReasonTokenLimit,
     StopReasonCostLimit, StopReasonCompletionLimit, StopReasonError,
     StopReasonCancelled}

\* MapGoogleFinishReason
MapGoogleFinishReason(finishReason, defaultReason) ==
    IF finishReason = Lit("") THEN defaultReason
    ELSE LET normalizedReason == ToUpper(finishReason)
         IN CASE normalizedReason = Lit("STOP") -> StopReasonEnd
              [] normalizedReason = Lit("MAX_TOKENS") -> StopReasonTokenLimit
              [] normalizedReason \in
                    {Lit("SAFETY"), Lit("RECITATION"), Lit("BLOCKLIST"),
                     Lit("PROHIBITED_CONTENT"), Lit("SPII"), Lit("MODEL_ARMOR"),
                     Lit("IMAGE_SAFETY"), Lit("IMAGE_PROHIBITED_CONTENT"),
                     Lit("IMAGE_RECITATION")} -> StopReasonError
              [] normalizedReason \in
                    {Lit("MALFORMED_FUNCTION_CALL"), Lit("UNEXPECTED_TOOL_CALL"),
                     Lit("NO_IMAGE")} -> StopReasonError
              [] normalizedReason \in {Lit("CANCELLED"), Lit("CANCELED")} ->
                    StopReasonCancelled
              [] normalizedReason \in
                    {Lit("FINISH_REASON_UNSPECIFIED"), Lit("OTHER"),
                     Lit("IMAGE_OTHER")} -> defaultReason
              [] OTHER -> defaultReason

\* the finish reasons of the SDK, and two values it does not have
GoogleFinishReasons ==
    {"STOP", "MAX_TOKENS", "SAFETY", "RECITATION", "BLOCKLIST",
     "PROHIBITED_CONTENT", "SPII", "MODEL_ARMOR", "IMAGE_SAFETY",
     "IMAGE_PROHIBITED_CONTENT", "IMAGE_RECITATION", "MALFORMED_FUNCTION_CALL",
     "UNEXPECTED_TOOL_CALL", "NO_IMAGE", "CANCELLED", "CANCELED",
     "FINISH_REASON_UNSPECIFIED", "OTHER", "IMAGE_OTHER", "LANGUAGE", "END"}

FinishReasonInputs ==
    {Lit("")} \cup {Text(w, c) : w \in GoogleFinishReasons, c \in Casings}

DefaultReasons == {StopReasonEnd, StopReasonError, StopReasonTimeout}

MapInputs ==
    [fn : {"MapGoogleFinishReason"}, finishReason : FinishReasonInputs,
     defaultReason : DefaultReasons]

-----------------------------------------------------------------------------
(* Captured text.  A Go string is a sequence of bytes; it is kept as runs of
   bytes of one class: "a" an ASCII byte, "L2", "L3", "L4" the lead byte of
   a character of 2, 3, 4 bytes, "c" a continuation byte (10xxxxxx), "M" the
   bytes of the truncation marker.  The empty string is <<>>. *)

MaxPromptLength == 50000

\* len(TruncationMarker)
markerLen == 14

Seg(b, n) == [b |-> b, n |-> n]

TruncationMarker == <<Seg("M", markerLen)>>

\* a character of w bytes
Char(w) ==
    IF w = 1 THEN <<Seg("a", 1)>>
    ELSE <<Seg(CASE w = 2 -> "L2" [] w = 3 -> "L3" [] w = 4 -> "L4", 1),
           Seg("c", w - 1)>>

\* len(s)
RECURSIVE ByteLen(_)
ByteLen(s) == IF s = <<>> THEN 0 ELSE s[1].n + ByteLen(Tail(s))

\* s[i], the first byte being s[0]
RECURSIVE ByteAt(_, _)
ByteAt(s, i) == IF i < s[1].n THEN s[1].b ELSE ByteAt(Tail(s), i - s[1].n)

\* s[:k]
RECURSIVE Slice(_, _)
Slice(s, k) ==
    IF k = 0 \/ s = <<>> THEN <<>>
    ELSE IF s[1].n <= k THEN <<s[1]>> \o Slice(Tail(s), k - s[1].n)
    ELSE <<Seg(s[1].b, k)>>

\* (s[i] & 0xC0) == 0x80
IsContinuation(b) == b = "c"

LeadWidth(b) == CASE b = "L2" -> 2 [] b = "L3" -> 3 [] b = "L4" -> 4

\* utf8.ValidString, need continuation bytes being due
RECURSIVE ValidFrom(_, _)
ValidFrom(s, need) ==
    IF s = <<>> THEN need = 0
    ELSE LET g == s[1]
         IN IF g.n = 0 THEN ValidFrom(Tail(s), need)
            ELSE IF g.b = "c" THEN g.n <= need /\ ValidFrom(Tail(s), need - g.n)
            ELSE IF g.b \in {"a", "M"} THEN need = 0 /\ ValidFrom(Tail(s), 0)
            ELSE need = 0 /\ g.n = 1 /\ ValidFrom(Tail(s), LeadWidth(g.b) - 1)

ValidString(s) == ValidFrom(s, 0)

\* string(utf8.RuneError): U+FFFD, three bytes
Replacement == Char(3)

\* []rune(s): runs of runes, each with its encoding and utf8.RuneLen; a byte
\* that starts no character decodes to utf8.RuneError
RECURSIVE Runes(_)
Runes(s) ==
    IF s = <<>> THEN <<>>
    ELSE LET g == s[1]
             following == IF Len(s) >= 2 /\ s[2].b = "c" THEN s[2].n ELSE 0
         IN IF g.n = 0 THEN Runes(Tail(s))
            ELSE IF g.b \in {"a", "M"}
            THEN <<[enc |-> <<Seg(g.b, 1)>>, w |-> 1, n |-> g.n]>> \o Runes(Tail(s))
            ELSE IF g.b = "c"
            THEN <<[enc |-> Replacement, w |-> 3, n |-> g.n]>> \o Runes(Tail(s))
            ELSE IF g.n = 1 /\ following >= LeadWidth(g.b) - 1
            THEN <<[enc |-> Char(LeadWidth(g.b)), w |-> LeadWidth(g.b), n |-> 1]>>
                     \o Runes(<<Seg("c", following - (LeadWidth(g.b) - 1))>>
                                  \o Tail(Tail(s)))
            ELSE <<[enc |-> Replacement, w |-> 3, n |-> 1]>>
                     \o Runes(<<Seg(g.b, g.n - 1)>> \o Tail(s))

\* k runes of a run, encoded
RECURSIVE Encoded(_, _)
Encoded(r, k) ==
    IF k = 0 THEN <<>>
    ELSE IF r.w = 1 THEN <<Seg(r.enc[1].b, k)>>
    ELSE r.enc \o Encoded(r, k - 1)

\* the fallback loop: runes are appended while they fit into room bytes
RECURSIVE TakeRunes(_, _)
TakeRunes(runes, room) ==
    IF runes = <<>> THEN <<>>
    ELSE LET r == runes[1]
             fit == IF r.n * r.w <= room THEN r.n ELSE room \div r.w
         IN IF fit = r.n
            THEN Encoded(r, fit) \o TakeRunes(Tail(runes), room - fit * r.w)
            ELSE Encoded(r, fit)

\* the loop that backs up over continuation bytes
RECURSIVE BackUp(_, _)
BackUp(s, maxBytes) ==
    IF maxBytes > 0 /\ maxBytes < ByteLen(s) /\ IsContinuation(ByteAt(s, maxBytes))
    THEN BackUp(s, maxBytes - 1)
    ELSE maxBytes

\* truncateUTF8Safe
truncateUTF8Safe(s, maxBytes) ==
    IF ByteLen(s) <= maxBytes THEN s
    ELSE LET cut == BackUp(s, maxBytes)
             head == Slice(s, cut)
         IN IF ~ValidString(head) THEN TakeRunes(Runes(s), cut) ELSE head

\* a cut that leaves no room for the marker
TruncateAt_NoMarker(limit) == limit

\* truncateAt := MaxPromptLength - markerLen
TruncateAt(limit) == limit - markerLen

\* PromptData
PromptData(system, messages, response, truncated) ==
    [SystemPrompt |-> system, InputMessages |-> messages,
     OutputResponse |-> response, PromptsTruncated |-> truncated]

\* ExtractStreamingResponseContent
ExtractStreamingResponseContent(accumulatedContent, promptsTruncated) ==
    IF accumulatedContent = <<>>
    THEN PromptData(<<>>, <<>>, <<>>, promptsTruncated)
    ELSE IF ByteLen(accumulatedContent) > MaxPromptLength
    THEN PromptData(<<>>, <<>>,
                    truncateUTF8Safe(accumulatedContent, TruncateAt(MaxPromptLength))
                        \o TruncationMarker,
                    TRUE)
    ELSE PromptData(<<>>, <<>>, accumulatedContent, promptsTruncated)

\* ExtractResponseContent; text is resp.Text()
ExtractResponseContent(resp, promptsTruncated) ==
    IF resp = Nil
    THEN PromptData(<<>>, <<>>, <<>>, promptsTruncated)
    ELSE IF resp.text = <<>>
    THEN PromptData(<<>>, <<>>, <<>>, promptsTruncated)
    ELSE IF ByteLen(resp.text) > MaxPromptLength
    THEN PromptData(<<>>, <<>>,
                    truncateUTF8Safe(resp.text, TruncateAt(MaxPromptLength))
                        \o TruncationMarker,
                    TRUE)
    ELSE PromptData(<<>>, <<>>, resp.text, promptsTruncated)

\* genai.Content
Content(role, parts) == [Role |-> role, Parts |-> parts]

\* genai.Part: text, inline data (a blob: MIME type and bytes) or a file
\* reference (MIME type)
Part(text, blob, file) == [Text |-> text, InlineData |-> blob, FileData |-> file]

TextPart(text) == Part(text, Nil, Nil)

\* "\n"
Newline == <<Seg("a", 1)>>

\* extractContentText: the non-empty part texts, joined by newlines
RECURSIVE JoinParts(_, _)
JoinParts(parts, joined) ==
    IF parts = <<>> THEN joined
    ELSE IF parts[1].Text # <<>>
    THEN JoinParts(Tail(parts),
                   IF joined # <<>> THEN joined \o Newline \o parts[1].Text
                   ELSE parts[1].Text)
    ELSE JoinParts(Tail(parts), joined)

extractContentText(content) ==
    IF content = Nil THEN <<>> ELSE JoinParts(content.Parts, <<>>)

\* halfLimit := MaxPromptLength / 2
halfLimit == MaxPromptLength \div 2

\* the message maps of the contents that are not nil, each cut on its own
RECURSIVE MessageMaps(_)
MessageMaps(contents) ==
    IF contents = <<>> THEN <<>>
    ELSE IF contents[1] = Nil THEN MessageMaps(Tail(contents))
    ELSE LET role == IF contents[1].Role = "" THEN "user" ELSE contents[1].Role
             text == extractContentText(contents[1])
             messageMap ==
                 [role |-> role,
                  content |-> IF ByteLen(text) > halfLimit
                              THEN truncateUTF8Safe(text, TruncateAt(halfLimit))
                                       \o TruncationMarker
                              ELSE text,
                  truncated |-> ByteLen(text) > halfLimit]
         IN <<messageMap>> \o MessageMaps(Tail(contents))

\* a piece of JSON text: a bracket, brace, comma or colon, or a string
Punct(t) == [t |-> t, v |-> <<>>]

Str(v) == [t |-> "str", v |-> v]

\* the encoder writes a string with every byte that belongs to no character
\* replaced by U+FFFD
Sanitized(s) == TakeRunes(Runes(s), 3 * ByteLen(s))

\* json.Marshal of one message map: keys in sorted order
MarshalMap(messageMap) ==
    <<Punct("{"), Str("content"), Punct(":"), Str(Sanitized(messageMap.content)),
      Punct(","), Str("role"), Punct(":"), Str(messageMap.role), Punct("}")>>

RECURSIVE MarshalElements(_)
MarshalElements(messages) ==
    IF messages = <<>> THEN <<>>
    ELSE IF Len(messages) = 1 THEN MarshalMap(messages[1])
    ELSE MarshalMap(messages[1]) \o <<Punct(",")>> \o MarshalElements(Tail(messages))

\* json.Marshal(messages)
Marshal(messages) == <<Punct("[")>> \o MarshalElements(messages) \o <<Punct("]")>>

\* the JSON text cut to room pieces
CutJSON(js, room) == IF Len(js) > room THEN SubSeq(js, 1, room) ELSE js

\* a serialization cut after the second message
Serialized_Cut(messages) == CutJSON(Marshal(messages), 20)

\* data.InputMessages = string(jsonBytes), the whole of it
Serialized(messages) == Marshal(messages)

\* ExtractPromptsFromRequest
ExtractPromptsFromRequest(contents, cfg) ==
    LET systemContent ==
            IF cfg # Nil THEN extractContentText(cfg.SystemInstruction)
            ELSE <<>>
        systemCut == ByteLen(systemContent) > MaxPromptLength
        messages == MessageMaps(contents)
    IN PromptData(
           IF systemCut
           THEN truncateUTF8Safe(systemContent, TruncateAt(MaxPromptLength))
                    \o TruncationMarker
           ELSE systemContent,
           IF Len(messages) > 0 THEN Serialized(messages) ELSE <<>>,
           <<>>,
           systemCut \/ \E i \in 1..Len(messages) : messages[i].truncated)

\* a MIME type: the part before the slash, its casing and the part after
\* it; "" has no parts
Mime(major, casing, sub) == [major |-> major, casing |-> casing, sub |-> sub]

EmptyMime == Mime("", "lower", "")

\* genai.Blob, Data being kept as its length
Blob(mime, size) == [MIMEType |-> mime, Data |-> size]

ImagePart(mime, size) == Part(<<>>, Blob(mime, size), Nil)

\* genai.FileData
FilePart(mime) == Part(<<>>, Nil, [MIMEType |-> mime])

\* a check of the prefix without the lower-casing
isImageMimeType_CaseSensitive(mime) ==
    mime # EmptyMime /\ mime.major = "image" /\ mime.casing = "lower"

\* isImageMimeType: strings.HasPrefix(strings.ToLower(mimeType), "image/")
isImageMimeType(mime) == mime # EmptyMime /\ mime.major = "image"

\* VisionDetectionResult
VisionDetectionResult(has, count, size, types) ==
    [HasVisionContent |-> has, ImageCount |-> count,
     TotalImageSizeBytes |-> size, MediaTypes |-> types]

\* containsString
containsString(slice, val) == \E i \in 1..Len(slice) : slice[i] = val

\* processInlineData
processInlineData(blob, r) ==
    IF ~isImageMimeType(blob.MIMEType) THEN r
    ELSE VisionDetectionResult(
             TRUE, r.ImageCount + 1, r.TotalImageSizeBytes + blob.Data,
             IF containsString(r.MediaTypes, blob.MIMEType) THEN r.MediaTypes
             ELSE Append(r.MediaTypes, blob.MIMEType))

\* processFileData: a file reference has no size
processFileData(fileData, r) ==
    IF ~isImageMimeType(fileData.MIMEType) THEN r
    ELSE VisionDetectionResult(
             TRUE, r.ImageCount + 1, r.TotalImageSizeBytes,
             IF containsString(r.MediaTypes, fileData.MIMEType) THEN r.MediaTypes
             ELSE Append(r.MediaTypes, fileData.MIMEType))

\* the loop over the parts of one content; a nil slice is the empty one
RECURSIVE DetectInParts(_, _)
DetectInParts(parts, r) ==
    IF parts = <<>> THEN r
    ELSE IF parts[1] = Nil THEN DetectInParts(Tail(parts), r)
    ELSE LET afterBlob == IF parts[1].InlineData # Nil
                          THEN processInlineData(parts[1].InlineData, r) ELSE r
             afterFile == IF parts[1].FileData # Nil
                          THEN processFileData(parts[1].FileData, afterBlob)
                          ELSE afterBlob
         IN DetectInParts(Tail(parts), afterFile)

\* the loop over the contents
RECURSIVE DetectInContents(_, _)
DetectInContents(contents, r) ==
    IF contents = <<>> THEN r
    ELSE IF contents[1] = Nil THEN DetectInContents(Tail(contents), r)
    ELSE DetectInContents(Tail(contents), DetectInParts(contents[1].Parts, r))

\* DetectVisionContent
DetectVisionContent(contents) ==
    DetectInContents(contents, VisionDetectionResult(FALSE, 0, 0, <<>>))

\* BuildVisionAttributes; Nil when there is no image
BuildVisionAttributes(r) ==
    IF ~r.HasVisionContent THEN Nil
    ELSE [vision_image_count |-> r.ImageCount,
          vision_total_size_bytes |-> r.TotalImageSizeBytes,
          vision_media_types |-> r.MediaTypes]

\* AddPromptDataToPayload
AddPromptDataToPayload(p, data) ==
    LET added ==
            (IF data.SystemPrompt # <<>> THEN {"systemPrompt"} ELSE {})
                \cup (IF data.InputMessages # <<>> THEN {"inputMessages"} ELSE {})
                \cup (IF data.OutputResponse # <<>> THEN {"outputResponse"} ELSE {})
                \cup (IF data.PromptsTruncated THEN {"promptsTruncated"} ELSE {})
    IN [f \in DOMAIN p \cup added |->
           IF f \notin added THEN p[f]
           ELSE CASE f = "systemPrompt" -> data.SystemPrompt
                  [] f = "inputMessages" -> data.InputMessages
                  [] f = "outputResponse" -> data.OutputResponse
                  [] f = "promptsTruncated" -> TRUE]

\* json.Unmarshal into a list of maps, as a reader of the payload does it:
\* the objects from piece i up to the closing bracket
RECURSIVE ParseElements(_, _)
ParseElements(js, i) ==
    IF /\ i + 8 <= Len(js)
       /\ js[i].t = "{" /\ js[i + 1].t = "str" /\ js[i + 2].t = ":"
       /\ js[i + 3].t = "str" /\ js[i + 4].t = "," /\ js[i + 5].t = "str"
       /\ js[i + 6].t = ":" /\ js[i + 7].t = "str" /\ js[i + 8].t = "}"
    THEN LET obj == (js[i + 1].v :> js[i + 3].v) @@ (js[i + 5].v :> js[i + 7].v)
         IN IF i + 9 = Len(js) /\ js[i + 9].t = "]"
            THEN [ok |-> TRUE, value |-> <<obj>>]
            ELSE IF i + 9 < Len(js) /\ js[i + 9].t = ","
            THEN LET rest == ParseElements(js, i + 10)
                 IN [ok |-> rest.ok, value |-> <<obj>> \o rest.value]
            ELSE [ok |-> FALSE, value |-> <<>>]
    ELSE [ok |-> FALSE, value |-> <<>>]

Unmarshal(js) ==
    IF Len(js) = 2 /\ js[1].t = "[" /\ js[2].t = "]"
    THEN [ok |-> TRUE, value |-> <<>>]
    ELSE IF Len(js) > 2 /\ js[1].t = "["
    THEN ParseElements(js, 2)
    ELSE [ok |-> FALSE, value |-> <<>>]

-----------------------------------------------------------------------------
(* The payloads the dispatched tasks build from their arguments *)

\* err.Error()
ErrorString(e) == e.msg

\* the counts of a usage block are int32
MaxInt32 == 2147483647

MinInt32 == -MaxInt32 - 1

\* a + b in int32, as Go computes it: the sum wraps around
Add32(a, b) ==
    IF a > 0 /\ b > MaxInt32 - a
    THEN (a - MaxInt32 - 1) + (b - MaxInt32 - 1)
    ELSE IF a < 0 /\ b < MinInt32 - a
    THEN (a + MaxInt32 + 1) + (b + MaxInt32 + 1)
    ELSE a + b

\* token counts of a chat payload: zero without a usage block; a zero
\* TotalTokenCount is replaced by prompt + candidates, added as int32 and
\* then widened to int64
TokenCounts(resp) ==
    LET usage == IF resp # Nil THEN resp.UsageMetadata ELSE Nil
    IN IF usage = Nil
       THEN [inputTokenCount |-> 0, outputTokenCount |-> 0, totalTokenCount |-> 0,
             reasoningTokenCount |-> 0, cacheCreationTokenCount |-> 0,
             cacheReadTokenCount |-> 0]
       ELSE [inputTokenCount  |-> usage.PromptTokenCount,
             outputTokenCount |-> usage.CandidatesTokenCount,
             totalTokenCount  |-> IF usage.TotalTokenCount = 0
                                  THEN Add32(usage.PromptTokenCount,
                                             usage.CandidatesTokenCount)
                                  ELSE usage.TotalTokenCount,
             reasoningTokenCount |-> usage.ThoughtsTokenCount,
             cacheCreationTokenCount |-> 0,
             cacheReadTokenCount |-> usage.CachedContentTokenCount]

\* ExtractFinishReason
ExtractFinishReason(response) ==
    IF response = Nil THEN Lit("")
    ELSE IF Len(response.Candidates) > 0 /\ response.Candidates[1] # Nil
    THEN response.Candidates[1].FinishReason
    ELSE Lit("")

\* stopReason of a chat payload
chatStopReason(resp) ==
    MapGoogleFinishReason(ExtractFinishReason(resp), StopReasonEnd)

\* a chat payload that never carries the error
chatUsagePayload_NoReason(args) ==
    [operationType |-> "CHAT", isStreamed |-> args.isStreamed,
     stopReason |-> chatStopReason(args.resp),
     counts |-> TokenCounts(args.resp), errorReason |-> <<>>]

\* usage and error fields of buildGoogleMeteringPayloadWithTiming; the
\* errorReason of a payload is <<>> when the payload has no such key, and
\* the one value under the key otherwise
chatUsagePayload(args) ==
    [operationType |-> "CHAT", isStreamed |-> args.isStreamed,
     stopReason |-> chatStopReason(args.resp),
     counts |-> TokenCounts(args.resp),
     errorReason |-> IF args.err # NoErr THEN <<ErrorString(args.err)>> ELSE <<>>]

\* time.Time.UTC().Format(time.RFC3339) of a time in milliseconds: the
\* second it falls in
RFC3339(t) == t \div 1000

\* a payload whose time of the first token is the time of the response
chatTimingPayload_AtResponse(args) ==
    [requestTime |-> RFC3339(args.requestTime),
     completionStartTime |-> RFC3339(args.responseTime),
     responseTime |-> RFC3339(args.responseTime),
     requestDuration |-> args.responseTime - args.requestTime,
     timeToFirstToken |-> args.responseTime - args.requestTime]

\* timing fields of buildGoogleMeteringPayloadWithTiming
chatTimingPayload(args) ==
    [requestTime |-> RFC3339(args.requestTime),
     completionStartTime |-> RFC3339(args.completionStartTime),
     responseTime |-> RFC3339(args.responseTime),
     requestDuration |-> args.responseTime - args.requestTime,
     timeToFirstToken |-> args.completionStartTime - args.requestTime]

\* buildImageErrorMeteringPayload
buildImageErrorMeteringPayload(args) ==
    [operationType |-> "IMAGE", stopReason |-> "ERROR",
     counts |-> [actualImageCount |-> 0,
                 requestedImageCount |-> args.requestedCount],
     errorReason |-> <<args.errorReason>>]

\* buildVideoErrorMeteringPayload
buildVideoErrorMeteringPayload(args) ==
    [operationType |-> "VIDEO", stopReason |-> "ERROR",
     counts |-> [actualVideoCount |-> 0,
                 requestedVideoCount |-> args.requestedCount],
     errorReason |-> <<args.errorReason>>]

\* len(resp.GeneratedImages) or len(resp.GeneratedVideos), 0 without a response
ActualCount(resp, field) == IF resp # Nil THEN resp[field] ELSE 0

\* buildImageMeteringPayload and buildEditImageMeteringPayload
buildImageMeteringPayload(args) ==
    [operationType |-> "IMAGE", stopReason |-> "END",
     counts |-> [actualImageCount |-> ActualCount(args.resp, "GeneratedImages"),
                 requestedImageCount |-> args.requestedCount],
     errorReason |-> <<>>]

\* buildUpscaleMeteringPayload
buildUpscaleMeteringPayload(args) ==
    [operationType |-> "IMAGE", stopReason |-> "END",
     counts |-> [actualImageCount |-> ActualCount(args.resp, "GeneratedImages"),
                 requestedImageCount |-> 1],
     errorReason |-> <<>>]

\* buildVideoOperationStartPayload
buildVideoOperationStartPayload(args) ==
    [operationType |-> "VIDEO", stopReason |-> "PENDING",
     counts |-> [actualVideoCount |-> 0,
                 requestedVideoCount |-> args.requestedCount],
     errorReason |-> <<>>]

\* buildVideoCompletionPayload
buildVideoCompletionPayload(args) ==
    [operationType |-> "VIDEO", stopReason |-> "END",
     counts |-> [actualVideoCount |-> ActualCount(args.resp, "GeneratedVideos"),
                 requestedVideoCount |-> ActualCount(args.resp, "GeneratedVideos")],
     errorReason |-> <<>>]

\* the payload a metering task builds from its arguments
TaskPayload(args) ==
    CASE args.fn = "sendMeteringDataWithTiming" -> chatUsagePayload(args)
      [] args.fn \in {"sendImageMeteringData", "sendEditImageMeteringData"} ->
           buildImageMeteringPayload(args)
      [] args.fn = "sendUpscaleMeteringData" -> buildUpscaleMeteringPayload(args)
      [] args.fn = "sendImageMeteringForError" -> buildImageErrorMeteringPayload(args)
      [] args.fn = "sendVideoOperationStartMetering" ->
           buildVideoOperationStartPayload(args)
      [] args.fn = "sendVideoCompletionMetering" -> buildVideoCompletionPayload(args)
      [] args.fn = "sendVideoMeteringForError" -> buildVideoErrorMeteringPayload(args)

\* the payload of a task started for a failed call
ErrorPayload(args) ==
    CASE args.fn = "sendMeteringDataWithTiming" -> chatUsagePayload(args)
      [] args.fn = "sendImageMeteringForError" -> buildImageErrorMeteringPayload(args)
      [] args.fn = "sendVideoMeteringForError" -> buildVideoErrorMeteringPayload(args)

\* the counts of what was produced, in a payload
ProducedCounts(p) ==
    CASE p.operationType = "CHAT" ->
           {p.counts.inputTokenCount, p.counts.outputTokenCount,
            p.counts.totalTokenCount}
      [] p.operationType = "IMAGE" -> {p.counts.actualImageCount}
      [] p.operationType = "VIDEO" -> {p.counts.actualVideoCount}

-----------------------------------------------------------------------------
(* The functions applied to their inputs (SpecExtract) *)

\* a function returns
Yield(v) ==
    /\ output = Nil
    /\ output' = [ret |-> v]
    /\ UNCHANGED <<now, dvars, cvars, hvars, input>>

ApplyMapGoogleFinishReason ==
    /\ input.fn = "MapGoogleFinishReason"
    /\ Yield(MapGoogleFinishReason(input.finishReason, input.defaultReason))

\* usage blocks with counts up to the largest int32
WideUsages ==
    {Usage(p, c, t, h, 0) : p \in {0, 10, MaxInt32}, c \in {0, 5, MaxInt32},
                            t \in {0, 15}, h \in {0, 3}}

TokenInputs ==
    [fn : {"TokenCounts"},
     resp : {Nil} \cup [UsageMetadata : WideUsages \cup {Nil}, Candidates : {<<>>}]]

ApplyTokenCounts ==
    /\ input.fn = "TokenCounts"
    /\ Yield(TokenCounts(input.resp))

\* the bytes of a text around the cut: characters of 1 to 4 bytes, a stray
\* continuation byte, a lead byte without its continuation bytes
Middles ==
    {Char(w) : w \in 1..4}
        \cup {Char(w) \o Char(v) : w \in 2..4, v \in 1..4}
        \cup {<<Seg("c", 1)>>, <<Seg("L3", 1)>>, <<Seg("L4", 1), Seg("c", 1)>>}

\* ASCII text of n bytes, then bytes of the set above, then ASCII text
LongText(n, middle, m) == <<Seg("a", n)>> \o middle \o <<Seg("a", m)>>

\* texts whose cut falls before, inside and after the middle, and texts
\* that need no cut
Texts ==
    {<<>>}
        \cup {LongText(n, mid, m) :
                 n \in (TruncateAt(MaxPromptLength) - 5)..TruncateAt(MaxPromptLength),
                 mid \in Middles, m \in {0, 30}}
        \cup {LongText(n, mid, 0) :
                 n \in {1, MaxPromptLength - 4, MaxPromptLength - 2}, mid \in Middles}

StreamTextInputs ==
    [fn : {"ExtractStreamingResponseContent"}, accumulatedContent : Texts,
     promptsTruncated : BOOLEAN]

ApplyExtractStreamingResponseContent ==
    /\ input.fn = "ExtractStreamingResponseContent"
    /\ Yield(ExtractStreamingResponseContent(input.accumulatedContent,
                                             input.promptsTruncated))

\* the contents of a request: nil, no text, short text, text of exactly
\* and of just over half the limit, a character across the cut, parts that
\* are long only when joined, a byte that belongs to no character
RequestContents ==
    {Nil,
     Content("model", <<>>),
     Content("", <<TextPart(Char(1))>>),
     Content("model", <<TextPart(LongText(halfLimit - 1, Char(1), 0))>>),
     Content("user", <<TextPart(LongText(halfLimit, Char(1), 0))>>),
     Content("",
             <<TextPart(LongText(TruncateAt(halfLimit) - 1, Char(3), 30))>>),
     Content("user", <<TextPart(LongText(halfLimit - 5, Char(2), 0)),
                       TextPart(<<>>), TextPart(Char(4))>>),
     Content("model", <<TextPart(<<Seg("c", 1)>>)>>)}

MaxContents == 3

RECURSIVE ContentLists(_)
ContentLists(n) ==
    IF n = 0 THEN {<<>>}
    ELSE ContentLists(n - 1)
             \cup {Append(l, c) : l \in {k \in ContentLists(n - 1) : Len(k) = n - 1},
                                  c \in RequestContents}

\* genai.GenerateContentConfig
ContentConfigs ==
    {Nil} \cup [SystemInstruction :
                   {Nil, Content("", <<TextPart(Char(1))>>),
                    Content("", <<TextPart(LongText(MaxPromptLength, Char(2), 0))>>)}]

PromptInputs ==
    [fn : {"ExtractPromptsFromRequest"}, contents : ContentLists(MaxContents),
     config : ContentConfigs]

ApplyExtractPromptsFromRequest ==
    /\ input.fn = "ExtractPromptsFromRequest"
    /\ Yield(ExtractPromptsFromRequest(input.contents, input.config))

ResponseTextInputs ==
    [fn : {"ExtractResponseContent"},
     resp : {Nil} \cup [text : {<<>>, Char(1), LongText(MaxPromptLength, Char(2), 0)}],
     promptsTruncated : BOOLEAN]

ApplyExtractResponseContent ==
    /\ input.fn = "ExtractResponseContent"
    /\ Yield(ExtractResponseContent(input.resp, input.promptsTruncated))

\* keys a caller can put into its metadata: fields of the payload, listed
\* keys and a key of its own
CallerKeys ==
    {"operationType", "costType", "model", "organizationId", "temperature",
     "customKey"}

CallerMetadatas == UNION {[keys -> {"caller"}] : keys \in SUBSET CallerKeys}

PayloadInputs ==
    [fn : {"MeteringPayload"}, kind : {"CHAT", "IMAGE", "VIDEO"},
     metadata : CallerMetadatas, t : {1700000123}]

ApplyMeteringPayload ==
    /\ input.fn = "MeteringPayload"
    /\ Yield(MeteringPayload(input.kind, input.metadata, input.t))

\* two calls made with one context, the second at a later reading of the
\* clock than the first
Clocks == {1700000123, 1700000124, 1700001123}

TwoCallInputs ==
    {c \in [fn : {"TwoCalls"}, kind : {"CHAT", "IMAGE", "VIDEO"},
            metadata : {NoMetadata, [organizationId |-> "caller"],
                        [transactionId |-> "tx-caller"],
                        [transactionId |-> "tx-caller", traceId |-> "caller"]},
            first : Clocks, second : Clocks] : c.first < c.second}

\* the payloads of the two calls
ApplyTwoCalls ==
    /\ input.fn = "TwoCalls"
    /\ Yield(<<MeteringPayload(input.kind, input.metadata, input.first),
               MeteringPayload(input.kind, input.metadata, input.second)>>)

\* GenerateContent and GenerateContentStream, from the arguments of a call
\* that succeeds to the payload of its metering task: the contents are
\* handed to the SDK and to nothing else, and the task is given the
\* response (of a stream: the usage of its last chunk), the times and the
\* generation config; r.config.CapturePrompts is read nowhere
ChatCallPayload(contents, genConfig, capturePrompts, resp, streamed, t) ==
    chatUsagePayload(
        ChatTask(IF streamed THEN UsageOnly(resp.UsageMetadata) ELSE resp,
                 streamed, t, t, t, NoErr))

\* requests: text alone, text with one inline PNG of 1024 bytes, several
\* images, a file reference and a video, and a request without any text
CallContents ==
    {<<Content("user", <<TextPart(Char(1))>>)>>,
     <<Content("user", <<TextPart(Char(1)),
                         ImagePart(Mime("image", "lower", "png"), 1024)>>)>>,
     <<Content("user", <<ImagePart(Mime("image", "upper", "png"), 1024),
                         ImagePart(Mime("image", "lower", "jpeg"), 2048),
                         ImagePart(Mime("image", "lower", "jpeg"), 512)>>),
       Nil,
       Content("model", <<FilePart(Mime("image", "lower", "png")),
                          ImagePart(Mime("video", "lower", "mp4"), 4096),
                          ImagePart(EmptyMime, 16)>>)>>,
     <<Nil, Content("", <<>>)>>}

ChatCallInputs ==
    [fn : {"GenerateContent"},
     contents : CallContents,
     genConfig : {Nil, [SystemInstruction |-> Content("", <<TextPart(Char(2))>>)]},
     CapturePrompts : BOOLEAN,
     resp : [UsageMetadata : {Usage(10, 5, 15, 0, 0)},
             Candidates : {<<Candidate([word |-> "STOP", casing |-> "UPPER"])>>},
             text : {<<>>, Char(1)}],
     streamed : BOOLEAN,
     t : Clocks]

ApplyChatCall ==
    /\ input.fn = "GenerateContent"
    /\ Yield(ChatCallPayload(input.contents, input.genConfig, input.CapturePrompts,
                             input.resp, input.streamed, input.t))

\* Initialize(opts...) on a middleware that is not initialized: the options
\* are applied, the environment loaded over them, the client constructed
InitializeFresh(opts, env, sdk) ==
    Construct(loadFromEnv(ApplyOptions(ZeroConfig, opts), env), sdk)

\* the options of a call: none, some, every one of them
CallOptions ==
    {<<>>,
     <<WithGoogleAPIKey("g-opt"), WithReveniumAPIKey(HakKey)>>,
     <<WithGoogleAPIKey("g-opt"), WithProjectID("proj-opt"),
       WithReveniumAPIKey(HakKey), WithReveniumBaseURL(<<"https://eu.revenium.ai">>),
       WithDebug(TRUE), WithCapturePrompts(TRUE)>>}

InitializeInputs ==
    [fn : {"Initialize"}, opts : CallOptions, env : Envs, sdk : SdkResults]

ApplyInitialize ==
    /\ input.fn = "Initialize"
    /\ Yield(InitializeFresh(input.opts, input.env, input.sdk))

\* a call made with metadata on its context, whose caller writes to the
\* metadata map after the call has returned: GetUsageMetadata hands the
\* wrapper the caller's map itself, and the task reads that map when it
\* builds the payload
MapWrites ==
    [key : {"organizationId", "traceId", "customKey"}, value : {"late"}]

MutatedCallInputs ==
    [fn : {"MutatedCall"}, kind : {"CHAT", "IMAGE", "VIDEO"},
     metadata : {NoMetadata, [organizationId |-> "caller"],
                 [organizationId |-> "caller", transactionId |-> "tx-caller"]},
     write : MapWrites, t : {1700000123}]

\* metadata[key] = value
MapWrite(md, w) ==
    [k \in DOMAIN md \cup {w.key} |-> IF k = w.key THEN w.value ELSE md[k]]

\* GetUsageMetadata: the map stored in the context, not a copy of it
GetUsageMetadata(md) == md

\* the wrapped call returns: it has read the metadata from the context and
\* started the task
CallReturns ==
    /\ input.fn = "MutatedCall"
    /\ output = Nil
    /\ output' = [map |-> GetUsageMetadata(input.metadata), written |-> FALSE,
                  task |-> "started", before |-> NoMetadata, raced |-> FALSE,
                  sent |-> NoPayload]
    /\ UNCHANGED <<now, dvars, cvars, hvars, input>>

\* the caller writes to its map
CallerWrites ==
    /\ input.fn = "MutatedCall"
    /\ output # Nil
    /\ ~output.written
    /\ output' = [output EXCEPT !.map = MapWrite(output.map, input.write),
                                !.written = TRUE,
                                !.raced = (output.task = "building")]
    /\ UNCHANGED <<now, dvars, cvars, hvars, input>>

\* the task begins to build the payload
TaskBuildBegins ==
    /\ input.fn = "MutatedCall"
    /\ output # Nil
    /\ output.task = "started"
    /\ output' = [output EXCEPT !.task = "building", !.before = output.map]
    /\ UNCHANGED <<now, dvars, cvars, hvars, input>>

\* the task has looked up the metadata keys: a write made meanwhile is a
\* data race on the map, after which the lookups have seen the map before
\* or after the write, or the runtime has stopped the program (concurrent
\* map read and map write)
TaskBuildEnds(outcome) ==
    /\ input.fn = "MutatedCall"
    /\ output # Nil
    /\ output.task = "building"
    /\ outcome \in (IF output.raced THEN {"before", "after", "fatal"} ELSE {"after"})
    /\ output' =
          CASE outcome = "before" ->
                 [output EXCEPT !.task = "built",
                     !.sent = MeteringPayload(input.kind, output.before, input.t)]
            [] outcome = "after" ->
                 [output EXCEPT !.task = "built",
                     !.sent = MeteringPayload(input.kind, output.map, input.t)]
            [] outcome = "fatal" -> [output EXCEPT !.task = "fatal"]
    /\ UNCHANGED <<now, dvars, cvars, hvars, input>>

\* parts of a request: none, text, inline images whose media types differ in
\* their letter case, an inline video, a file reference, and a part with
\* both an inline image and a file reference
VisionParts ==
    {Nil, TextPart(Char(1)),
     ImagePart(Mime("image", "lower", "png"), 1024),
     ImagePart(Mime("image", "UPPER", "png"), 512),
     ImagePart(Mime("video", "lower", "mp4"), 4096),
     FilePart(Mime("image", "lower", "png")),
     Part(<<>>, Blob(Mime("image", "lower", "jpeg"), 2048),
          [MIMEType |-> Mime("image", "Mixed", "jpeg")])}

\* parts of one content
MaxParts == 2

PartLists(n) == UNION {[1..k -> VisionParts] : k \in 0..n}

VisionContents == {Nil} \cup {Content("user", ps) : ps \in PartLists(MaxParts)}

\* a second content of a request
OtherContents ==
    {Nil, Content("model", <<FilePart(Mime("image", "lower", "jpeg"))>>),
     Content("user", <<ImagePart(Mime("image", "lower", "png"), 256)>>)}

VisionInputs ==
    [fn : {"DetectVisionContent"},
     contents : {<<>>} \cup {<<c>> : c \in VisionContents}
                   \cup {<<c, d>> : c \in VisionContents, d \in OtherContents}
                   \cup {<<d, c>> : c \in VisionContents, d \in OtherContents}]

\* DetectVisionContent called twice on one request
ApplyDetectVisionContent ==
    /\ input.fn = "DetectVisionContent"
    /\ Yield([first |-> DetectVisionContent(input.contents),
              second |-> DetectVisionContent(input.contents)])

ExtractInputs ==
    MutatedCallInputs \cup VisionInputs \cup MapInputs \cup TokenInputs \cup StreamTextInputs \cup PromptInputs
        \cup ResponseTextInputs \cup PayloadInputs
        \cup TwoCallInputs \cup ChatCallInputs \cup InitializeInputs

InitExtract ==
    /\ DeliveryOff
    /\ CallOff
    /\ HostOff
    /\ now = 0
    /\ input \in ExtractInputs
    /\ output = Nil

NextExtract ==
    \/ ApplyMapGoogleFinishReason
    \/ ApplyTokenCounts
    \/ ApplyExtractStreamingResponseContent
    \/ ApplyExtractPromptsFromRequest
    \/ ApplyExtractResponseContent
    \/ ApplyMeteringPayload
    \/ ApplyTwoCalls
    \/ ApplyChatCall
    \/ ApplyInitialize
    \/ CallReturns
    \/ CallerWrites
    \/ TaskBuildBegins
    \/ \E outcome \in {"before", "after", "fatal"} : TaskBuildEnds(outcome)
    \/ ApplyDetectVisionContent

SpecExtract == InitExtract /\ [][NextExtract]_vars

\* the function applied has returned
Applied(fn) ==
    /\ input.fn = fn
    /\ output # Nil

-----------------------------------------------------------------------------
(* Properties of one wrapped call (SpecCall) *)

\* C1: a consumed stream that has ended, by exhaustion, by the consumer
\* stopping or by an SDK error, has dispatched exactly one metering task.
C1_OneTaskAtStreamEnd ==
    cpc = "ended" => Len(dispatched) = 1

\* C2: a wrapped call dispatches at most one metering task, and a stream
\* dispatches none while the consumer is still ranging over it (no task per
\* chunk).
C2_AtMostOneTaskPerCall ==
    /\ Len(dispatched) <= 1
    /\ cpc = "iterating" => dispatched = <<>>

\* a stream of several chunks, each with a usage block, consumed to its end:
\* one task
C2_Witness ==
    /\ cpc = "ended"
    /\ exit = "exhausted"
    /\ Len(yielded) >= 2
    /\ \A i \in DOMAIN yielded : yielded[i].resp.UsageMetadata # Nil
    /\ Len(dispatched) = 1

\* C3: a wrapped call that is over has handed its caller exactly what the
\* SDK produced: the response or the error of a synchronous call, and every
\* item of a stream in order.
C3_CallerGetsSdkResult ==
    /\ cpc \in {"returned", "panicked"} => ret = sdkOut[1]
    /\ op = "GenerateContentStream" => yielded = sdkOut

\* the SDK call failed at once: its first and only item is an error
FailedAtOnce ==
    /\ cpc \in {"returned", "ended"}
    /\ Len(sdkOut) = 1
    /\ sdkOut[1].err # NoErr

\* C12: a wrapped call whose SDK call failed at once has dispatched exactly
\* one task, whose payload carries the SDK error as errorReason and zero
\* counts, and has handed the error unchanged to its caller.
C12_FailedCallIsMetered ==
    FailedAtOnce =>
        /\ Len(dispatched) = 1
        /\ ErrorPayload(dispatched[1]).errorReason = <<ErrorString(sdkOut[1].err)>>
        /\ ProducedCounts(ErrorPayload(dispatched[1])) = {0}
        /\ IF op = "GenerateContentStream"
           THEN yielded = <<Returned(Nil, sdkOut[1].err)>>
           ELSE ret = Returned(Nil, sdkOut[1].err)

\* a GenerateContent whose SDK call failed has returned
C12_Witness ==
    /\ FailedAtOnce
    /\ op = "GenerateContent"
    /\ Len(dispatched) = 1
    /\ ret.err = sdkOut[1].err

\* C15: once the context of the call was cancelled during the consumption
\* of a stream, the consumer gets no further chunk, and the stream ends with
\* the one metering task dispatched.
C15_CancelStopsStream ==
    (cpc = "ended" /\ cancelAt # <<>>) =>
        /\ \A i \in DOMAIN yielded :
              i > cancelAt[1] => yielded[i].err # NoErr
        /\ Len(dispatched) = 1

\* C16: the items the consumer of a stream has got are a prefix of the
\* items the SDK stream produced, the same items in the same order; an error
\* is the last item and ends the stream; after the consumer stopped nothing
\* more was pulled from the SDK stream.
C16_ConsumerSeesSdkPrefix ==
    op = "GenerateContentStream" =>
        /\ Len(yielded) <= Len(sdkOut)
        /\ \A i \in DOMAIN yielded : yielded[i] = sdkOut[i]
        /\ \A i \in DOMAIN yielded :
              yielded[i].err # NoErr =>
                  /\ i = Len(yielded)
                  /\ yielded[i].resp = Nil
                  /\ cpc = "ended"
                  /\ exit = "error"
        /\ (cpc = "ended" /\ exit = "stopped") => Len(sdkOut) = Len(yielded)

\* a stream that gave two chunks and then an error
C16_Witness ==
    /\ cpc = "ended"
    /\ exit = "error"
    /\ Len(yielded) = 3
    /\ yielded[1].err = NoErr
    /\ yielded[3].err # NoErr

\* the finish reason the SDK reported for the call: that of its response,
\* for a stream that of the last chunk received; "" when there is none
ReportedFinishReason ==
    LET got == {i \in DOMAIN sdkOut : sdkOut[i].err = NoErr}
    IN IF got = {} THEN ""
       ELSE LET last == CHOOSE i \in got : \A j \in got : j <= i
            IN sdkOut[last].resp.Candidates[1].FinishReason.word

\* C22: the payload of every chat metering task, streamed or not, has as
\* stopReason the mapping, with default END, of the finish reason the SDK
\* reported for the call (END for STOP, ERROR for SAFETY), operationType
\* CHAT, and isStreamed true exactly for the streaming wrapper.
C22_StopReasonOfTheCall ==
    (op \in {"GenerateContent", "GenerateContentStream"}
        /\ cpc \in {"returned", "ended"}) =>
        \A i \in DOMAIN dispatched :
            LET p == chatUsagePayload(dispatched[i])
            IN /\ p.stopReason = CASE ReportedFinishReason = "STOP" -> "END"
                                   [] ReportedFinishReason = "SAFETY" -> "ERROR"
                                   [] OTHER -> "END"
               /\ p.operationType = "CHAT"
               /\ p.isStreamed = (op = "GenerateContentStream")

-----------------------------------------------------------------------------
(* Properties of the host goroutines (SpecHost) *)

\* goroutine u holds a lock inside a wait for the in-flight tasks
WaitsForTasks(u) == hpc[u] \in {"CloseWait", "ResetWait"} /\ ~WgWait(wg)

\* goroutine t stands in a getter behind a lock whose holder, or the holder
\* of the lock that holder stands at, waits for the in-flight tasks
BlockedOnDelivery(t) ==
    \/ /\ hpc[t] \in Getters
       /\ mu # 0
       /\ WaitsForTasks(mu)
    \/ /\ hpc[t] = "GetClient"
       /\ globalMu # 0
       /\ \/ WaitsForTasks(globalMu)
          \/ /\ hpc[globalMu] = "ResetClose"
             /\ mu # 0
             /\ WaitsForTasks(mu)

\* C4: no goroutine inside Models(), Images(), Videos() or GetClient() waits
\* for an in-flight metering task to finish.
C4_GettersNeverWaitOnDelivery ==
    \A t \in Threads : ~BlockedOnDelivery(t)

\* C5: a Flush or Close that has returned left no task unfinished among
\* those dispatched before it was called.
C5_FlushWaitsForEarlierTasks ==
    \A t \in Threads :
        hret[t].op \in {"Flush", "Close"} => hret[t].unfinished = {}

\* a Flush has returned that was called after a task had been dispatched
C5_Witness ==
    \E t \in Threads :
        /\ hret[t].op = "Flush"
        /\ hret[t].covered
        /\ hret[t].unfinished = {}

-----------------------------------------------------------------------------
(* Properties of the delivery engine (SpecDelivery) *)

Is2xx(r) == r.net = "response" /\ r.status >= 200 /\ r.status < 300
Is4xx(r) == r.net = "response" /\ r.status >= 400 /\ r.status < 500
IsTransient(r) == ~Is2xx(r) /\ ~Is4xx(r)

\* the task ended in its recover handler
Panicked == \E i \in DOMAIN errorLog : errorLog[i].type = "panic"

\* C6: in each engine a 4xx answer ends the delivery at that attempt with a
\* validation error, whatever number of attempts is left; any other non-2xx
\* status and any transport failure is followed by a further attempt as long
\* as the attempt was not the third (and no panic ended the task).
C6_ValidationNotRetried ==
    \A i \in DOMAIN sent :
        /\ Is4xx(sent[i].got) =>
              /\ i = Len(sent)
              /\ dpc = "done"
              /\ result.type = "VALIDATION"
              /\ result = sent[i].err
              /\ result.code = sent[i].got.status
        /\ (IsTransient(sent[i].got) /\ i < maxRetries) =>
              \/ i < Len(sent)
              \/ dpc = "loop" /\ attempt = i
              \/ dpc = "done" /\ Panicked

C6_Witness ==
    /\ dpc = "done"
    /\ Len(sent) = 2
    /\ sent[1].got = [net |-> "response", status |-> 503]
    /\ sent[2].got = [net |-> "response", status |-> 404]

\* C7: a delivery makes at most 3 attempts; no sleep precedes attempt 1,
\* 100 ms precede attempt 2 and 200 ms attempt 3, and these are all the
\* sleeps of the task: none follows the last attempt.
C7_AttemptsAndBackoff ==
    /\ Len(sent) <= 3
    /\ \A i \in DOMAIN sent :
          sent[i].slept = (CASE i = 1 -> 0 [] i = 2 -> 100 [] OTHER -> 200)
    /\ sleeps = CASE Len(sent) <= 1 -> <<>>
                  [] Len(sent) = 2 -> <<100>>
                  [] OTHER -> <<100, 200>>

C7_Witness ==
    /\ dpc = "done"
    /\ Len(sent) = 3
    /\ sleeps = <<100, 200>>

C10_SamePayloadEveryAttempt ==
    \A i \in DOMAIN sent :
        /\ sent[i].request.body = payload
        /\ sent[i].request.body = sent[1].request.body
        /\ sent[i].request.body.transactionId = sent[1].request.body.transactionId

C10_Witness ==
    /\ Len(sent) = 3
    /\ metadata = NoMetadata
    /\ kind = "CHAT"
    /\ now > sent[1].request.body.transactionId[1] + 300

\* C11: over all behaviours of the network and of the backend, the payload
\* of a task is accepted by the backend at most once.
C11_AcceptedAtMostOnce ==
    Cardinality({i \in DOMAIN sent : Accepted(sent[i].got)}) <= 1

\* C13: a panic raised inside a metering task, in the payload build or in
\* the delivery, stays inside the task; the in-flight counter is
\* decremented exactly once, when the task finishes, so that a Flush called
\* afterwards returns.
C13_PanicIsRecovered ==
    /\ dpc # "crashed"
    /\ wg = IF dpc = "done" THEN 0 ELSE 1
    /\ dpc = "done" => WgWait(wg)

\* a task that panicked during its delivery, after a failed attempt, is over
C13_Witness ==
    /\ dpc = "done"
    /\ Len(sent) >= 1
    /\ Panicked
    /\ wg = 0

\* C14: no attempt of a dispatched delivery is ended by the context of the
\* originating call: every attempt, made before or after a cancellation,
\* ends with an answer of the backend or a transport failure, within the
\* 10 s client timeout, and a delivery that is over after a cancellation
\* ended by a success, a validation error, the third failure or a panic.
C14_CancellationDoesNotAbort ==
    /\ \A i \in DOMAIN sent :
          /\ sent[i].got # Canceled
          /\ sent[i].request.ctx # "call"
          /\ HttpDuration(sent[i].got) <= httpTimeout
    /\ (dpc = "done" /\ ctx = "cancelled" /\ ~Panicked) =>
          \/ result = NoErr
          \/ IsValidationError(result)
          \/ Len(sent) = maxRetries

\* a delivery made wholly after the cancellation went on to its second
\* attempt and succeeded
C14_Witness ==
    /\ dpc = "done"
    /\ result = NoErr
    /\ Len(sent) = 2
    /\ sent[1].ctxDone
    /\ sent[2].ctxDone

\* goroutine t comes back from operation name in this step
Returns(t, name) ==
    /\ hret'[t] # hret[t]
    /\ hret'[t].op = name

\* C17: the process-wide client is a singleton with the lifecycle
\* uninitialized -> initialized -> (Reset) uninitialized. The flag is set
\* exactly while a global client is published; GetClient returns a
\* ConfigError and no client exactly when the flag is clear, and the
\* published client otherwise; the published client is replaced by nothing
\* but nil, and by Reset alone; Initialize on an initialized middleware
\* returns nil and changes nothing; and a client is constructed only from
\* the uninitialized state, one at a time, and becomes the published one.
C17_SingletonLifecycle ==
    /\ [](initialized <=> globalClient # Nil)
    /\ [](initialized => globalClient.id = clients)
    /\ [][\A t \in Threads :
            /\ Returns(t, "GetClient") =>
                  IF initialized
                  THEN hret'[t].err = NoErr /\ hret'[t].client = globalClient
                  ELSE hret'[t].err.type = "CONFIG" /\ hret'[t].client = Nil
            /\ (Returns(t, "Initialize") /\ initialized) =>
                  /\ hret'[t].err = NoErr
                  /\ UNCHANGED <<initialized, globalClient, clients>>]_vars
    /\ [][/\ globalClient' # globalClient =>
                \/ globalClient = Nil
                \/ globalClient' = Nil /\ \E t \in Threads : hpc[t] = "ResetWait"
          /\ clients' # clients =>
                /\ ~initialized
                /\ initialized'
                /\ clients' = clients + 1
                /\ globalClient'.id = clients']_vars

\* two goroutines are back from Initialize with nil, one client constructed
C17_Witness ==
    /\ initialized
    /\ clients = 1
    /\ \A t \in {1, 2} : hret[t] = [op |-> "Initialize", err |-> NoErr]

\* C18: an Initialize that fails returns its error, a ConfigError for the
\* missing metering credential or a ProviderError carrying its cause, and
\* leaves the middleware as it was, uninitialized and without a global
\* client; IsInitialized and GetClient report that state.
C18_FailedInitializeChangesNothing ==
    /\ [](~initialized => globalClient = Nil)
    /\ [][\A t \in Threads :
            /\ (Returns(t, "Initialize") /\ hret'[t].err # NoErr) =>
                  /\ \/ /\ hret'[t].err.type = "CONFIG"
                        /\ hret'[t].err.msg = "REVENIUM_METERING_API_KEY is required"
                     \/ /\ hret'[t].err.type = "PROVIDER"
                        /\ hret'[t].err.cause # NoErr
                  /\ ~initialized /\ ~initialized'
                  /\ globalClient = Nil /\ globalClient' = Nil
                  /\ clients' = clients
            /\ Returns(t, "IsInitialized") => hret'[t].value = initialized
            /\ (Returns(t, "GetClient") /\ ~initialized) => hret'[t].err # NoErr]_vars

\* an Initialize failed with a ProviderError; the middleware is now
\* initialized, by the one client constructed so far
C18_Witness ==
    /\ initialized
    /\ clients = 1
    /\ \E t \in Threads :
          /\ hret[t].op = "Initialize"
          /\ hret[t].err # NoErr
          /\ hret[t].err.type = "PROVIDER"

\* C19: neither Initialize nor NewReveniumGoogle yields a client for a
\* metering credential that is missing or lacks the "hak_" prefix: the
\* configuration of every published or returned client passes Validate.
C19_MalformedKeyYieldsNoClient ==
    /\ globalClient # Nil => Validate(globalClient.instance.config) = NoErr
    /\ \A t \in Threads :
          (hret[t].op = "NewReveniumGoogle" /\ hret[t].err = NoErr) =>
              Validate(hret[t].client.config) = NoErr

\* what the rule of selection gives for a configuration
SelectedByRule(cfg) ==
    IF cfg # Nil /\ cfg.VertexDisabled THEN "GOOGLE_AI"
    ELSE IF cfg # Nil /\ cfg.ProjectID # "" THEN "VERTEX_AI"
    ELSE "GOOGLE_AI"

\* C20: provider selection is a total function of the configuration: with
\* the Vertex-disable flag set the result is GOOGLE_AI whatever the project
\* id; otherwise a non-empty project id gives VERTEX_AI; otherwise, and for
\* a nil configuration, GOOGLE_AI. Every client carries the provider
\* selected for its configuration.
C20_ProviderSelection ==
    /\ \A t \in Threads :
          /\ hret[t].op = "DetectProvider" =>
                hret[t].provider = SelectedByRule(hret[t].cfg)
          /\ (hret[t].op = "NewReveniumGoogle" /\ hret[t].err = NoErr) =>
                hret[t].client.provider = SelectedByRule(hret[t].client.config)
    /\ globalClient # Nil =>
          globalClient.instance.provider = SelectedByRule(globalClient.instance.config)

\* DetectProvider was asked about a configuration with a project id and the
\* disable flag, and answered GOOGLE_AI
C20_Witness ==
    \E t \in Threads :
        /\ hret[t].op = "DetectProvider"
        /\ hret[t].cfg # Nil
        /\ hret[t].cfg.VertexDisabled
        /\ hret[t].cfg.ProjectID # ""
        /\ hret[t].provider = "GOOGLE_AI"

\* the finish reasons the table sends to ERROR: safety, policy, content
\* filter, malformed tool call
ErrorFinishReasons ==
    {"SAFETY", "RECITATION", "BLOCKLIST", "PROHIBITED_CONTENT", "SPII",
     "MODEL_ARMOR", "IMAGE_SAFETY", "IMAGE_PROHIBITED_CONTENT", "IMAGE_RECITATION",
     "MALFORMED_FUNCTION_CALL", "UNEXPECTED_TOOL_CALL"}

\* C21: MapGoogleFinishReason returns for every input, and follows the
\* table whatever the letter case of the input: STOP gives END, MAX_TOKENS
\* gives TOKEN_LIMIT, the safety, policy, content-filter and
\* malformed-tool-call reasons give ERROR, both spellings of CANCELLED give
\* CANCELLED, FINISH_REASON_UNSPECIFIED, OTHER, the empty string and the
\* values outside the SDK's enumeration give the default of the caller; the
\* result is always a value of the table or that default.
C21_FinishReasonTable ==
    /\ (input # Nil /\ input.fn = "MapGoogleFinishReason" /\ output = Nil) =>
           ENABLED ApplyMapGoogleFinishReason
    /\ Applied("MapGoogleFinishReason") =>
          LET w == input.finishReason.word
              d == input.defaultReason
              r == output.ret
          IN /\ w = "STOP" => r = "END"
             /\ w = "MAX_TOKENS" => r = "TOKEN_LIMIT"
             /\ w \in ErrorFinishReasons => r = "ERROR"
             /\ w \in {"CANCELLED", "CANCELED"} => r = "CANCELLED"
             /\ w \in {"FINISH_REASON_UNSPECIFIED", "OTHER", "", "LANGUAGE", "END"} => r = d
             /\ r \in {"END", "TOKEN_LIMIT", "ERROR", "CANCELLED", d}

\* max_tokens, in lower case, was mapped to TOKEN_LIMIT
C21_Witness ==
    /\ Applied("MapGoogleFinishReason")
    /\ input.finishReason = Text("MAX_TOKENS", "lower")
    /\ input.defaultReason = "END"
    /\ output.ret = "TOKEN_LIMIT"

\* C23: without a response or without a usage block every token count of
\* the payload is zero; a non-zero total of the SDK is passed through; a
\* total that is unset or zero is replaced by the integer sum of the prompt
\* and candidate counts, for all values of the 32-bit counts.
C23_TotalIsTheIntegerSum ==
    Applied("TokenCounts") =>
        LET resp == input.resp
            c == output.ret
        IN IF resp = Nil \/ resp.UsageMetadata = Nil
           THEN \A k \in DOMAIN c : c[k] = 0
           ELSE LET u == resp.UsageMetadata
                IN /\ c.inputTokenCount = u.PromptTokenCount
                   /\ c.outputTokenCount = u.CandidatesTokenCount
                   /\ u.TotalTokenCount # 0 => c.totalTokenCount = u.TotalTokenCount
                   /\ u.TotalTokenCount = 0 =>
                         /\ c.totalTokenCount >= u.PromptTokenCount
                         /\ c.totalTokenCount - u.PromptTokenCount =
                               u.CandidatesTokenCount

\* the text ends with the truncation marker
EndsWithMarker(t) ==
    /\ t # <<>>
    /\ t[Len(t)] = Seg("M", markerLen)

\* C24, as stated, for the texts that are valid UTF-8: a captured text
\* longer than the limit is cut to exactly the limit, ends with the
\* truncation marker and is valid UTF-8, also with multi-byte characters
\* around the cut; a text at or below the limit is returned unchanged.
C24_TruncatedToExactlyTheLimit ==
    (Applied("ExtractStreamingResponseContent")
        /\ ValidString(input.accumulatedContent)) =>
        LET s == input.accumulatedContent
            r == output.ret.OutputResponse
        IN IF ByteLen(s) > MaxPromptLength
           THEN /\ ByteLen(r) = MaxPromptLength
                /\ EndsWithMarker(r)
                /\ ValidString(r)
           ELSE r = s

\* C24, amended: a captured text longer than the limit is cut to at most
\* the limit: to exactly the limit when the text is valid UTF-8 and the cut
\* falls on a character boundary, and to no less than the limit minus 3 for
\* any valid UTF-8 text; the output ends with the truncation marker, is
\* valid UTF-8, and the truncation flag is set.  A text at or below the
\* limit is returned unchanged, with the flag it came with.
C24_TruncatedWithinTheLimit ==
    Applied("ExtractStreamingResponseContent") =>
        LET s == input.accumulatedContent
            r == output.ret.OutputResponse
        IN IF ByteLen(s) > MaxPromptLength
           THEN /\ ByteLen(r) <= MaxPromptLength
                /\ ValidString(s) => ByteLen(r) >= MaxPromptLength - 3
                /\ (ValidString(s)
                      /\ ~IsContinuation(ByteAt(s, MaxPromptLength - markerLen))) =>
                      ByteLen(r) = MaxPromptLength
                /\ EndsWithMarker(r)
                /\ ValidString(r)
                /\ output.ret.PromptsTruncated
           ELSE /\ r = s
                /\ output.ret.PromptsTruncated = input.promptsTruncated

\* a text with a character of 4 bytes across the cut was truncated: the
\* output is 3 bytes short of the limit
C24_Witness ==
    /\ Applied("ExtractStreamingResponseContent")
    /\ input.accumulatedContent =
          LongText(MaxPromptLength - markerLen - 3, Char(4), 30)
    /\ ByteLen(output.ret.OutputResponse) = MaxPromptLength - 3
    /\ EndsWithMarker(output.ret.OutputResponse)


\* the contents of the request that are not nil, in order
LiveContents(contents) == SelectSeq(contents, LAMBDA c : c # Nil)

\* C25: each message of ExtractPromptsFromRequest is cut on its own, before
\* serialization, to at most half the limit with the marker included; the
\* serialized text is whole and parses as a JSON array with one entry for
\* each message that is not nil, in order; the flag of the result is true
\* exactly when the system prompt or some message was cut; the response
\* extractors keep a flag passed in.
C25_MessagesCutOneByOne ==
    /\ Applied("ExtractPromptsFromRequest") =>
           LET live == LiveContents(input.contents)
               parsed == Unmarshal(output.ret.InputMessages)
               system == IF input.config = Nil THEN <<>>
                         ELSE extractContentText(input.config.SystemInstruction)
               long(i) == ByteLen(extractContentText(live[i])) > MaxPromptLength \div 2
           IN /\ IF live = <<>> THEN output.ret.InputMessages = <<>>
                 ELSE /\ parsed.ok
                      /\ Len(parsed.value) = Len(live)
                      /\ \A i \in 1..Len(live) :
                            LET entry == parsed.value[i]
                                said == extractContentText(live[i])
                            IN /\ DOMAIN entry = {"role", "content"}
                               /\ entry["role"] = IF live[i].Role = "" THEN "user"
                                                  ELSE live[i].Role
                               /\ ValidString(entry["content"])
                               /\ IF long(i)
                                  THEN /\ ByteLen(entry["content"])
                                             <= MaxPromptLength \div 2
                                       /\ EndsWithMarker(entry["content"])
                                  ELSE ValidString(said) =>
                                           ByteLen(entry["content"]) = ByteLen(said)
              /\ output.ret.PromptsTruncated
                     <=> \/ ByteLen(system) > MaxPromptLength
                         \/ \E i \in 1..Len(live) : long(i)
    /\ Applied("ExtractResponseContent") =>
           output.ret.PromptsTruncated
               <=> \/ input.promptsTruncated
                   \/ input.resp # Nil /\ ByteLen(input.resp.text) > MaxPromptLength
    /\ Applied("ExtractStreamingResponseContent") =>
           output.ret.PromptsTruncated
               <=> \/ input.promptsTruncated
                   \/ ByteLen(input.accumulatedContent) > MaxPromptLength

\* three contents, one of them nil and one just over half the limit: the
\* list came out as two entries, longer together than the limit of a field
C25_Witness ==
    /\ Applied("ExtractPromptsFromRequest")
    /\ input.contents = <<Content("user", <<TextPart(LongText(halfLimit, Char(1), 0))>>),
                          Nil,
                          Content("model", <<TextPart(LongText(halfLimit - 1, Char(1), 0))>>)>>
    /\ output.ret.PromptsTruncated
    /\ Len(Unmarshal(output.ret.InputMessages).value) = 2
    /\ ByteLen(Unmarshal(output.ret.InputMessages).value[1]["content"]) = halfLimit
    /\ ByteLen(Unmarshal(output.ret.InputMessages).value[2]["content"]) = halfLimit


\* the allow-list of metadata keys
AllowList ==
    {"organizationId", "productId", "subscriptionId", "taskType", "taskId",
     "agent", "traceId", "traceType", "traceName", "environment", "region",
     "transactionId", "subscriber", "responseQualityScore", "modelSource",
     "mediationLatency", "retryNumber", "credentialAlias",
     "parentTransactionId", "temperature"}

C27_TransactionIdPerRequest ==
    Applied("TwoCalls") =>
        output.ret[1].transactionId # output.ret[2].transactionId


\* C28: the payload dispatched for a chat call whose request has image
\* parts carries the vision statistics (image count, total bytes, media
\* types) under its attributes and not at top level.
C28_VisionStatisticsInAttributes ==
    (Applied("GenerateContent")
        /\ DetectVisionContent(input.contents).HasVisionContent) =>
        /\ "attributes" \in DOMAIN output.ret
        /\ output.ret.attributes =
               BuildVisionAttributes(DetectVisionContent(input.contents))
        /\ DOMAIN output.ret
               \cap {"vision_image_count", "vision_total_size_bytes",
                     "vision_media_types"} = {}

\* the prompt fields a call has to report when capture is enabled
CapturedFields ==
    LET prompts == ExtractPromptsFromRequest(input.contents, input.genConfig)
        response ==
            IF input.streamed
            THEN ExtractStreamingResponseContent(input.resp.text,
                                                 prompts.PromptsTruncated)
            ELSE ExtractResponseContent(input.resp, prompts.PromptsTruncated)
    IN AddPromptDataToPayload(AddPromptDataToPayload(<<>>, prompts), response)

\* C29: a chat payload holds the captured prompt fields (systemPrompt,
\* inputMessages, outputResponse, promptsTruncated) when, and only when,
\* CapturePrompts is enabled and the text is not empty; for a stream the
\* response is the text accumulated over the chunks.
C29_PromptCaptureIsEffective ==
    Applied("GenerateContent") =>
        LET reported == DOMAIN output.ret
                           \cap {"systemPrompt", "inputMessages",
                                 "outputResponse", "promptsTruncated"}
        IN IF input.CapturePrompts
           THEN /\ reported = DOMAIN CapturedFields
                /\ \A f \in reported : output.ret[f] = CapturedFields[f]
           ELSE reported = {}


\* C30: after Initialize(opts...) has succeeded, the configuration of the
\* shared client holds the value of every option passed, whatever the
\* environment of the process contains.
C30_OptionsTakeEffect ==
    (Applied("Initialize") /\ output.ret.err = NoErr) =>
        \A i \in 1..Len(input.opts) :
            output.ret.client.config[input.opts[i][1]] = input.opts[i][2]


\* C31: for a streamed call in which at least one chunk was forwarded, the
\* completionStartTime of the dispatched payload is the time the first
\* chunk was received, on every exit path, and timeToFirstToken is that
\* time minus the request time.
C31_FirstChunkTimeReported ==
    (op = "GenerateContentStream" /\ cpc = "ended" /\ firstTokenReceived) =>
        \A i \in DOMAIN dispatched :
            LET p == chatTimingPayload(dispatched[i])
            IN /\ p.completionStartTime = RFC3339(completionStartTime)
               /\ p.timeToFirstToken = completionStartTime - requestTime


\* the forwarded chunks that had a usage block
ChunksWithUsage ==
    {i \in DOMAIN yielded :
        yielded[i].err = NoErr /\ yielded[i].resp.UsageMetadata # Nil}

\* C32: the usage carried by the task dispatched at the end of a stream is
\* that of the last forwarded chunk that had a usage block, not that of the
\* first such chunk and not a sum; what the SDK could have produced after
\* the consumer stopped contributes nothing.
C32_LatestUsageIsReported ==
    (op = "GenerateContentStream" /\ cpc = "ended") =>
        \A i \in DOMAIN dispatched :
            IF ChunksWithUsage = {}
            THEN dispatched[i].resp = Nil
            ELSE LET last == CHOOSE k \in ChunksWithUsage :
                                 \A j \in ChunksWithUsage : j <= k
                     usage == yielded[last].resp.UsageMetadata
                 IN /\ dispatched[i].resp # Nil
                    /\ dispatched[i].resp.UsageMetadata = usage
                    /\ chatUsagePayload(dispatched[i]).counts.inputTokenCount
                           = usage.PromptTokenCount
                    /\ chatUsagePayload(dispatched[i]).counts.outputTokenCount
                           = usage.CandidatesTokenCount

\* two chunks with different usage and a third without any, after which the
\* consumer stopped: the task carries the usage of the second
C32_Witness ==
    /\ op = "GenerateContentStream"
    /\ cpc = "ended"
    /\ exit = "stopped"
    /\ Len(yielded) = 3
    /\ yielded[1].resp.UsageMetadata = Usage(10, 5, 15, 0, 0)
    /\ yielded[2].resp.UsageMetadata = Usage(10, 7, 0, 2, 1)
    /\ yielded[3].resp.UsageMetadata = Nil
    /\ Len(dispatched) = 1
    /\ dispatched[1].resp.UsageMetadata = Usage(10, 7, 0, 2, 1)


Inside(t) == hpc[t] \notin {"idle", "sdk"}

\* C34: Flush and Close always terminate: every dispatched task finishes
\* after at most 3 attempts, so under fair scheduling a goroutine inside
\* Flush, Close, Reset, a getter or GetClient eventually returns, whatever
\* the tasks in flight and the other goroutines do.
C34_FlushCloseResetReturn ==
    \A t \in Threads : Inside(t) ~> ~Inside(t)

\* Close has returned after it waited for tasks dispatched before it
C34_Witness ==
    \E t \in Threads :
        /\ hret[t].op = "Close"
        /\ hret[t].covered
        /\ hret[t].unfinished = {}
        /\ \E i \in DOMAIN task : task[i].state = "finished"

\* C35: WaitForVideoGeneration, however it returns (a response, a failed
\* operation, a context that is done, an operation done without a response),
\* has dispatched exactly one metering task, and when it returns an error the
\* payload of that task carries an errorReason.
C35_EveryWaitIsMetered ==
    cpc = "waited" =>
        /\ Len(dispatched) = 1
        /\ ret.err # NoErr => ErrorPayload(dispatched[1]).errorReason # <<>>


\* C36: the stopReason of the payload of every metering task a wrapped call
\* starts (chat, streamed chat, image, video start, video completion, and
\* their error payloads) is one of the eight standardized stop reasons.
C36_StopReasonInClosedSet ==
    \A i \in DOMAIN dispatched : TaskPayload(dispatched[i]).stopReason \in StopReasons

\* the wrapped call failed: it returned an error, or its stream ended with one
CallFailed ==
    IF op = "GenerateContentStream" THEN exit = "error"
    ELSE cpc \in {"returned", "waited"} /\ ret.err # NoErr

\* C37: the payload of every metering task carries errorReason exactly when
\* the wrapped call failed, and a payload that carries errorReason has
\* stopReason ERROR.
C37_ErrorReasonMeansError ==
    \A i \in DOMAIN dispatched :
        LET p == TaskPayload(dispatched[i])
        IN /\ (p.errorReason # <<>>) <=> CallFailed
           /\ p.errorReason # <<>> => p.stopReason = StopReasonError

\* C38: in every dispatched chat task, streamed or not, the recorded times
\* are ordered requestTime <= completionStartTime <= responseTime, none of
\* them is the zero value, and the payload has
\* 0 <= timeToFirstToken <= requestDuration and its three time stamps in the
\* same order.
C38_TimesAreOrdered ==
    \A i \in DOMAIN dispatched :
        dispatched[i].fn = "sendMeteringDataWithTiming" =>
            LET args == dispatched[i]
                p == chatTimingPayload(args)
            IN /\ args.completionStartTime # ZeroTime
               /\ args.requestTime <= args.completionStartTime
               /\ args.completionStartTime <= args.responseTime
               /\ 0 <= p.timeToFirstToken
               /\ p.timeToFirstToken <= p.requestDuration
               /\ p.requestTime <= p.completionStartTime
               /\ p.completionStartTime <= p.responseTime

\* a stream of three chunks that took time each, consumed to its end: the
\* first token came after the request and before the response
C38_Witness ==
    /\ op = "GenerateContentStream"
    /\ exit = "exhausted"
    /\ Len(yielded) = 3
    /\ Len(dispatched) = 1
    /\ dispatched[1].requestTime < dispatched[1].completionStartTime
    /\ dispatched[1].completionStartTime < dispatched[1].responseTime

\* C39: the payload a task sends holds the metadata the caller's map held
\* when the wrapped call was entered, whatever the caller writes to the map
\* after the call has returned, and the task comes to build it.
C39_MetadataAsAtCallEntry ==
    (input.fn = "MutatedCall" /\ output # Nil) =>
        /\ output.task # "fatal"
        /\ output.task = "built" =>
              output.sent = MeteringPayload(input.kind, input.metadata, input.t)

\* the images of a request: their places (content, part, 0 for the inline
\* blob and 1 for the file reference)
ImagePlaces(contents) ==
    {pl \in (DOMAIN contents) \X (1..(MaxParts + 1)) \X {0, 1} :
        /\ contents[pl[1]] # Nil
        /\ pl[2] \in DOMAIN contents[pl[1]].Parts
        /\ contents[pl[1]].Parts[pl[2]] # Nil
        /\ LET prt == contents[pl[1]].Parts[pl[2]]
               ref == IF pl[3] = 0 THEN prt.InlineData ELSE prt.FileData
           IN ref # Nil /\ ref.MIMEType.major = "image"}

\* the blob or file reference at a place, and the rank of the place in the
\* order of the request
AtPlace(contents, pl) ==
    IF pl[3] = 0 THEN contents[pl[1]].Parts[pl[2]].InlineData
    ELSE contents[pl[1]].Parts[pl[2]].FileData

Rank(pl) == (pl[1] * (MaxParts + 2) + pl[2]) * 2 + pl[3]

RECURSIVE InlineBytes(_, _)
InlineBytes(contents, places) ==
    IF places = {} THEN 0
    ELSE LET pl == CHOOSE x \in places : TRUE
         IN (IF pl[3] = 0 THEN AtPlace(contents, pl).Data ELSE 0)
                + InlineBytes(contents, places \ {pl})

\* C40: DetectVisionContent returns, for every request (empty, with nil
\* contents and nil parts): as ImageCount the number of inline blobs and file
\* references whose media type begins with image/ in any letter case, as
\* TotalImageSizeBytes the sum of the lengths of the inline image blobs, as
\* MediaTypes each media type of an image once, in the order in which they
\* are first seen, HasVisionContent exactly when ImageCount > 0, and the
\* same result when it is called again.
C40_DetectVisionContentCounts ==
    Applied("DetectVisionContent") =>
        LET r == output.ret.first
            places == ImagePlaces(input.contents)
            types == r.MediaTypes
            FirstSeen(mt) ==
                CHOOSE k \in {Rank(pl) : pl \in {q \in places :
                                  AtPlace(input.contents, q).MIMEType = mt}} :
                    \A pl \in places :
                        AtPlace(input.contents, pl).MIMEType = mt => k <= Rank(pl)
        IN /\ r.ImageCount = Cardinality(places)
           /\ r.TotalImageSizeBytes = InlineBytes(input.contents, places)
           /\ {types[i] : i \in DOMAIN types} =
                  {AtPlace(input.contents, pl).MIMEType : pl \in places}
           /\ \A i, j \in DOMAIN types :
                  i < j => /\ types[i] # types[j]
                           /\ FirstSeen(types[i]) < FirstSeen(types[j])
           /\ r.HasVisionContent = (r.ImageCount > 0)
           /\ output.ret.second = r

\* a request with a PNG image inline in upper case and one by reference in
\* lower case, and a second content with a further inline PNG: three images,
\* the bytes of the two inline ones, two media types
C40_Witness ==
    /\ Applied("DetectVisionContent")
    /\ Len(input.contents) = 2
    /\ input.contents[1] # Nil
    /\ input.contents[1].Parts =
          <<ImagePart(Mime("image", "UPPER", "png"), 512),
            FilePart(Mime("image", "lower", "png"))>>
    /\ output.ret.first =
          VisionDetectionResult(TRUE, 3, 768,
                                <<Mime("image", "UPPER", "png"),
                                  Mime("image", "lower", "png")>>)

====
